---------------------------- MODULE Spec2Model ----------------------------
(***************************************************************************)
(* A model of the keyserver engine of g10/keyserver.cpp:                   *)
(*   - keyserver_retrieval_screener (the import screener),                 *)
(*   - keyserver_get_chunk / keyserver_get (batch planning and retrieval), *)
(*   - parse_keyrec / search_line_handler (the search response parser). *)
(* Each part has its own specification over the module's variables; the    *)
(* variables of the other parts stay at their idle values.                 *)
(***************************************************************************)
EXTENDS Integers, Sequences, FiniteSets, TLC

VARIABLES
    \* keyserver_retrieval_screener: one call
    sc_pc,          \* "call" before the call, "ret" after it
    sc_keyblock,    \* the kbnode list handed to the screener
    sc_arg,         \* ks_retrieval_screener_arg_s: [desc, ndesc]
    sc_rc,          \* the screener's return value
    \* keyserver_get: one call
    g_pc,           \* "idle", "loop" (inside for(;;)), "done" (returned)
    g_desc,         \* the caller's descriptor array
    g_off,          \* desc - (caller's array): descriptors skipped so far
    g_ndesc,        \* ndesc: descriptors left
    g_err,          \* err
    g_any_good,     \* any_good
    g_chunks,       \* history: one record per keyserver_get_chunk call,
                    \* with the key block read and the screener's verdict
    g_stats,        \* history: import_print_stats was called
    g_ret,          \* keyserver_get's return value
    \* what outlives a call: the options and the function statics
    st_opt,         \* the options this file reads from the global opt
    st_work,        \* parse_keyrec's static work
    st_from,        \* show_prompt's static from
    \* parse_keyrec called on its own
    p_fed,          \* history: the lines fed (0 is the NULL keystring)
    p_rets,         \* history: what each call returned
    \* keyserver_search: one call
    s_pc,           \* "idle", "recv" (the transport runs), "prompt"
                    \* (show_prompt waits for an answer), "done"
    s_parm,         \* search_line_handler_parm_s
    s_site,         \* which call of show_prompt is waiting
    s_keyrec,       \* keyrec of the handler as long as it is not freed: while
                    \* it waits at the "page" prompt, and after its return
    s_fed,          \* history: the data lines received (0 is the EOF)
    s_out,          \* history: what was printed and fetched
    s_err,          \* keyserver_search's return value
    s_in,           \* the answers read at the prompts of this search
    s_run,          \* calls of keyserver_search in this process so far
    \* show_prompt: one call
    pr_pc,          \* "off", "call", "read" (waits for an answer), "ret"
    pr_arg,         \* the arguments [desc, numdesc, count]
    pr_in,          \* history: what each read drew: [answer, alloc_ok]
    pr_out,         \* history: the header, the warnings, the keyserver_get
                    \* calls
    pr_err,         \* show_prompt's return value
    \* keyserver_import: one call
    im_pc,          \* "off", "call", "get" (keyserver_get runs), "done"
    im_users,       \* the strings given on the command line
    im_log,         \* history: the strings reported as "not a key ID"
    im_calls,       \* history: calls of keyserver_get made
    im_rc,          \* keyserver_import's return value
    \* keyserver_refresh: one call
    rf_pc,          \* "off", "call", "get" (keyserver_get runs), "done"
    rf_import_options,  \* opt.keyserver_options.import_options: the flags set
    rf_options,     \* the local options: the flags saved at entry
    rf_trustdb,     \* history: check_or_update_trustdb was called
    rf_err          \* keyserver_refresh's return value

screenVars == <<sc_pc, sc_keyblock, sc_arg, sc_rc>>
getVars == <<g_pc, g_desc, g_off, g_ndesc, g_err, g_any_good, g_chunks,
             g_stats, g_ret>>
staticVars == <<st_opt, st_work, st_from>>
parseVars == <<p_fed, p_rets>>
searchVars ==
    <<s_pc, s_parm, s_site, s_keyrec, s_fed, s_out, s_err, s_in, s_run>>
promptVars == <<pr_pc, pr_arg, pr_in, pr_out, pr_err>>
importVars == <<im_pc, im_users, im_log, im_calls, im_rc>>
refreshVars == <<rf_pc, rf_import_options, rf_options, rf_trustdb, rf_err>>
vars == <<screenVars, getVars, staticVars, parseVars, searchVars,
         promptVars, importVars, refreshVars>>

-----------------------------------------------------------------------------
(* Bounds of the model. *)

\* Packets in a key block handed to the screener.
MaxPkts == 2
\* Descriptors in the screener's requested list.
MaxReq == 2
\* Calls of parse_keyrec in a row.
MaxFeed == 4
\* Data lines of one search response.
MaxLines == 3
\* Data lines of the response to a search that is not the first one of
\* its process.
MaxLinesAgain == 2
\* Calls of keyserver_search in one process.
MaxSearch == 2
\* Records found when show_prompt is called.
MaxKeys == 3
\* Answers read by one call of show_prompt.
MaxAnswers == 2
\* Descriptors handed to keyserver_get.
MaxDesc == 3
\* Strings handed to keyserver_import.
MaxUsers == 2
\* Keys of the keyring that keyserver_refresh finds.
MaxRefresh == 2

-----------------------------------------------------------------------------
(* Error codes (gpg_error_t; 0 is success). *)

GPG_ERR_GENERAL == 1

(* Search modes of KEYDB_SEARCH_DESC.  KEYDB_SEARCH_MODE_NONE is the zero  *)
(* value of the enum: "if (desc.mode)" tests mode # NONE.                  *)
KEYDB_SEARCH_MODE_NONE == "NONE"
KEYDB_SEARCH_MODE_EXACT == "EXACT"
KEYDB_SEARCH_MODE_SUBSTR == "SUBSTR"
KEYDB_SEARCH_MODE_SHORT_KID == "SHORT_KID"
KEYDB_SEARCH_MODE_LONG_KID == "LONG_KID"
KEYDB_SEARCH_MODE_FPR16 == "FPR16"
KEYDB_SEARCH_MODE_FPR20 == "FPR20"

(* Packet types of a kbnode. *)
PKT_SECRET_KEY == "SECRET_KEY"
PKT_PUBLIC_KEY == "PUBLIC_KEY"
PKT_SECRET_SUBKEY == "SECRET_SUBKEY"
PKT_PUBLIC_SUBKEY == "PUBLIC_SUBKEY"
PKT_USER_ID == "USER_ID"

(* A KEYDB_SEARCH_DESC: the mode and the members of the union u.  kid is   *)
(* <<kid[0], kid[1]>> (high and low 32 bits), fpr is 20 bytes, name is a   *)
(* string.  A member the mode does not use is zero.                        *)
ZeroFpr == [i \in 1..20 |-> 0]
Desc(mode, kid, fpr, name) ==
    [mode |-> mode, kid |-> kid, fpr |-> fpr, name |-> name]
DescNone == Desc(KEYDB_SEARCH_MODE_NONE, <<0, 0>>, ZeroFpr, "")
DescShort(lo) == Desc(KEYDB_SEARCH_MODE_SHORT_KID, <<0, lo>>, ZeroFpr, "")
DescLong(hi, lo) == Desc(KEYDB_SEARCH_MODE_LONG_KID, <<hi, lo>>, ZeroFpr, "")
\* A 16-byte fingerprint occupies the first 16 bytes of u.fpr.
DescFpr16(f) ==
    Desc(KEYDB_SEARCH_MODE_FPR16, <<0, 0>>,
         [i \in 1..20 |-> IF i <= 16 THEN f[i] ELSE 0], "")
DescFpr20(f) == Desc(KEYDB_SEARCH_MODE_FPR20, <<0, 0>>, f, "")
DescExact(name) == Desc(KEYDB_SEARCH_MODE_EXACT, <<0, 0>>, ZeroFpr, name)

IdentifyingModes ==
    {KEYDB_SEARCH_MODE_SHORT_KID, KEYDB_SEARCH_MODE_LONG_KID,
     KEYDB_SEARCH_MODE_FPR16, KEYDB_SEARCH_MODE_FPR20}

\* All sequences over S of length lo..hi.
SeqsOf(S, lo, hi) == UNION {[1..n -> S] : n \in lo..hi}

-----------------------------------------------------------------------------
(* keyserver_retrieval_screener *)

(* The keys a server may return.  A public key is what the packet decoder  *)
(* made of it: the screener reads only its key id and its fingerprint      *)
(* (20 bytes for a v4 key, 16 bytes for a v3 key).                         *)
\* Key id words are written in decimal: 305419896 = 0x12345678,
\* 715784193 = 0x2AAA0001, 1002110978 = 0x3BBB0002, 448585456 = 0x1ABCDEF0,
\* 195948557 = 0x0BADF00D.
FprA == <<1, 2, 3, 4, 5, 6, 7, 8, 9, 10, 11, 12, 13, 14, 15, 16, 17, 18,
          19, 20>>
\* FprA with another last byte: differs from FprA beyond byte 16 only.
FprB == [FprA EXCEPT ![20] = 99]
\* A v3 fingerprint equal to the first 16 bytes of FprA.
FprC == SubSeq(FprA, 1, 16)
KeyA == [keyid |-> <<715784193, 305419896>>, fpr |-> FprA]
\* Same low 32 bits of the key id as KeyA, other high 32 bits.
KeyB == [keyid |-> <<1002110978, 305419896>>, fpr |-> FprB]
KeyC == [keyid |-> <<715784193, 448585456>>, fpr |-> FprC]
NoKey == [keyid |-> <<0, 0>>, fpr |-> <<>>]

Pkt(type, pk) == [pkttype |-> type, pk |-> pk]
ScreenPackets ==
    {Pkt(PKT_SECRET_KEY, KeyA), Pkt(PKT_PUBLIC_KEY, KeyA),
     Pkt(PKT_PUBLIC_KEY, KeyB), Pkt(PKT_PUBLIC_KEY, KeyC),
     Pkt(PKT_PUBLIC_SUBKEY, KeyB), Pkt(PKT_SECRET_SUBKEY, KeyA),
     Pkt(PKT_USER_ID, NoKey)}
ScreenDescs ==
    {DescShort(305419896), DescLong(715784193, 305419896),
     DescLong(715784193, 195948557), DescFpr20(FprA), DescFpr16(FprC),
     DescExact("alice"), DescNone}

\* fingerprint_from_pk (pk, fpr, &fpr_len): the bytes written and their count.
fingerprint_from_pk(pk) == pk.fpr
\* keyid_from_pk (pk, keyid)
keyid_from_pk(pk) == pk.keyid

\* memcmp (a, b, n): 0 iff the first n bytes are equal.
memcmp(a, b, n) == IF \A i \in 1..n : a[i] = b[i] THEN 0 ELSE 1

\* find_kbnode (keyblock, pkttype): the index of the first node of that
\* type, 0 (NULL) when there is none.
find_kbnode(keyblock, pkttype) ==
    IF \E i \in 1..Len(keyblock) : keyblock[i].pkttype = pkttype
    THEN CHOOSE i \in 1..Len(keyblock) :
            /\ keyblock[i].pkttype = pkttype
            /\ \A j \in 1..(i - 1) : keyblock[j].pkttype # pkttype
    ELSE 0

\* One requested descriptor against one key: mutant that compares the whole
\* key id for a short key id too.
DescMatchesLongOnly(d, fpr, keyid) ==
    CASE d.mode = KEYDB_SEARCH_MODE_FPR20 ->
            Len(fpr) = 20 /\ memcmp(fpr, d.fpr, 20) = 0
      [] d.mode = KEYDB_SEARCH_MODE_FPR16 ->
            Len(fpr) = 16 /\ memcmp(fpr, d.fpr, 16) = 0
      [] d.mode = KEYDB_SEARCH_MODE_LONG_KID ->
            keyid[1] = d.kid[1] /\ keyid[2] = d.kid[2]
      [] d.mode = KEYDB_SEARCH_MODE_SHORT_KID ->
            keyid[1] = d.kid[1] /\ keyid[2] = d.kid[2]
      [] OTHER -> TRUE

\* The body of "for (n = 0; n < ndesc; n++)" for one n: TRUE iff it returns 0.
DescMatches(d, fpr, keyid) ==
    CASE d.mode = KEYDB_SEARCH_MODE_FPR20 ->
            Len(fpr) = 20 /\ memcmp(fpr, d.fpr, 20) = 0
      [] d.mode = KEYDB_SEARCH_MODE_FPR16 ->
            Len(fpr) = 16 /\ memcmp(fpr, d.fpr, 16) = 0
      [] d.mode = KEYDB_SEARCH_MODE_LONG_KID ->
            keyid[1] = d.kid[1] /\ keyid[2] = d.kid[2]
      [] d.mode = KEYDB_SEARCH_MODE_SHORT_KID ->
            keyid[2] = d.kid[2]
      [] OTHER -> TRUE      \* No keyid or fingerprint - can't check.

\* The inner loop over desc[n..ndesc-1] (1-based here) for one key.
RECURSIVE ScreenDescLoop(_, _, _, _, _)
ScreenDescLoop(desc, ndesc, n, fpr, keyid) ==
    IF n > ndesc THEN FALSE
    ELSE IF DescMatches(desc[n], fpr, keyid) THEN TRUE
    ELSE ScreenDescLoop(desc, ndesc, n + 1, fpr, keyid)

\* The outer loop over the nodes keyblock[i..]: the value returned.
RECURSIVE ScreenNodeLoop(_, _, _, _)
ScreenNodeLoop(keyblock, desc, ndesc, i) ==
    IF i > Len(keyblock) THEN GPG_ERR_GENERAL
    ELSE IF /\ keyblock[i].pkttype # PKT_PUBLIC_KEY
            /\ keyblock[i].pkttype # PKT_PUBLIC_SUBKEY
    THEN ScreenNodeLoop(keyblock, desc, ndesc, i + 1)
    ELSE IF ScreenDescLoop(desc, ndesc, 1,
                           fingerprint_from_pk(keyblock[i].pk),
                           keyid_from_pk(keyblock[i].pk))
    THEN 0
    ELSE ScreenNodeLoop(keyblock, desc, ndesc, i + 1)

\* Mutant: the secret-key test comes after the "no description" shortcut.
ScreenerSecretAfterNdesc(keyblock, arg) ==
    IF arg.ndesc = 0 THEN 0
    ELSE IF find_kbnode(keyblock, PKT_SECRET_KEY) # 0 THEN GPG_ERR_GENERAL
    ELSE ScreenNodeLoop(keyblock, arg.desc, arg.ndesc, 1)

ScreenerNoShortcut(keyblock, arg) ==
    IF find_kbnode(keyblock, PKT_SECRET_KEY) # 0 THEN GPG_ERR_GENERAL
    ELSE ScreenNodeLoop(keyblock, arg.desc, arg.ndesc, 1)

\* keyserver_retrieval_screener (keyblock, opaque): 0 iff the key shall be
\* imported.
keyserver_retrieval_screener(keyblock, arg) ==
    IF find_kbnode(keyblock, PKT_SECRET_KEY) # 0 THEN GPG_ERR_GENERAL
    ELSE IF arg.ndesc = 0 THEN 0
    ELSE ScreenNodeLoop(keyblock, arg.desc, arg.ndesc, 1)

-----------------------------------------------------------------------------
(* keyserver_get_chunk and keyserver_get *)

\* Somewhat lower than the real limit.
MAX_KS_GET_LINELEN == 950
\* linelen = 17: "KS_GET --quick --"
KS_GET_BASELEN == 17

\* What gpg_dirmngr_ks_get may return besides 0.
GPG_ERR_NO_KEYSERVER == 186
GPG_ERR_NOT_FOUND == 27
TransportErrors == {GPG_ERR_NO_KEYSERVER, GPG_ERR_NOT_FOUND}
\* gpg_error_from_syserror () after a failed allocation.
GPG_ERR_ENOMEM == 32854

\* A string of k copies of s.
RECURSIVE Rep(_, _)
Rep(s, k) ==
    IF k = 0 THEN ""
    ELSE IF k % 2 = 0 THEN LET h == Rep(s, k \div 2) IN h \o h
    ELSE s \o Rep(s, k - 1)

\* Two of these names and a short key id fill a request exactly
\* (17 + 461 + 461 + 11 = 950).
Name459 == Rep("n", 459)
\* A name whose pattern alone is over the limit ("=" and 950 characters).
Name950 == Rep("x", 950)

\* The descriptors handed to keyserver_get.
GetDescs ==
    {DescShort(305419896), DescLong(715784193, 305419896), DescFpr20(FprA),
     DescFpr16(FprC), DescExact(Name459), DescExact(Name950), DescNone}

HexChars ==
    <<"0", "1", "2", "3", "4", "5", "6", "7", "8", "9", "A", "B", "C", "D",
      "E", "F">>

\* printf ("%0<width>lX", n) for n < 16^width.
RECURSIVE Hex(_, _)
Hex(n, width) ==
    IF width = 0 THEN ""
    ELSE Hex(n \div 16, width - 1) \o HexChars[(n % 16) + 1]

\* bin2hex (buffer, length, stringbuf)
RECURSIVE bin2hex(_, _)
bin2hex(buffer, length) ==
    IF length = 0 THEN ""
    ELSE bin2hex(buffer, length - 1) \o Hex(buffer[length], 2)

\* Mutant: a fingerprint costs by its own length.
PatternCostByLength(d) ==
    CASE d.mode = KEYDB_SEARCH_MODE_FPR20 -> 1 + 2 + 2 * 20
      [] d.mode = KEYDB_SEARCH_MODE_FPR16 -> 1 + 2 + 2 * 16
      [] d.mode = KEYDB_SEARCH_MODE_LONG_KID -> 1 + 2 + 16
      [] d.mode = KEYDB_SEARCH_MODE_SHORT_KID -> 1 + 2 + 8
      [] d.mode = KEYDB_SEARCH_MODE_EXACT -> 1 + 1 + Len(d.name)

\* n: the length a descriptor's pattern adds to the KS_GET line.
PatternCost(d) ==
    CASE d.mode \in {KEYDB_SEARCH_MODE_FPR20, KEYDB_SEARCH_MODE_FPR16} ->
            1 + 2 + 2 * 20
      [] d.mode = KEYDB_SEARCH_MODE_LONG_KID -> 1 + 2 + 16
      [] d.mode = KEYDB_SEARCH_MODE_SHORT_KID -> 1 + 2 + 8
      [] d.mode = KEYDB_SEARCH_MODE_EXACT -> 1 + 1 + Len(d.name)

\* Mutant: a fingerprint is always written with 20 bytes, and a short key
\* id from kid[0].
PatternForWide(d) ==
    CASE d.mode \in {KEYDB_SEARCH_MODE_FPR20, KEYDB_SEARCH_MODE_FPR16} ->
            "0x" \o bin2hex(d.fpr, 20)
      [] d.mode = KEYDB_SEARCH_MODE_LONG_KID ->
            "0x" \o Hex(d.kid[1], 8) \o Hex(d.kid[2], 8)
      [] d.mode = KEYDB_SEARCH_MODE_SHORT_KID -> "0x" \o Hex(d.kid[1], 8)
      [] d.mode = KEYDB_SEARCH_MODE_EXACT -> "=" \o d.name

\* pattern[npat]: the search pattern made for a descriptor.
PatternFor(d) ==
    CASE d.mode = KEYDB_SEARCH_MODE_FPR20 -> "0x" \o bin2hex(d.fpr, 20)
      [] d.mode = KEYDB_SEARCH_MODE_FPR16 -> "0x" \o bin2hex(d.fpr, 16)
      [] d.mode = KEYDB_SEARCH_MODE_LONG_KID ->
            "0x" \o Hex(d.kid[1], 8) \o Hex(d.kid[2], 8)
      [] d.mode = KEYDB_SEARCH_MODE_SHORT_KID -> "0x" \o Hex(d.kid[2], 8)
      [] d.mode = KEYDB_SEARCH_MODE_EXACT -> "=" \o d.name

\* Mutant: the limit is tested before the first descriptor too.
ChunkFullAlsoFirst(idx, linelen, n) == linelen + n > MAX_KS_GET_LINELEN

\* Mutant: the limit is tested on the length before this pattern.
ChunkFullBefore(idx, linelen, n) == idx # 0 /\ linelen > MAX_KS_GET_LINELEN

\* "if (idx && linelen + n > MAX_KS_GET_LINELEN) break;"
ChunkFull(idx, linelen, n) == idx # 0 /\ linelen + n > MAX_KS_GET_LINELEN

\* The loop "for (npat = idx = 0; idx < ndesc; idx++)" from index idx
\* (0-based, as in the code; desc[idx] is desc[idx + 1] here) on: the
\* index it stops at, the patterns made and the estimated line length.
RECURSIVE ChunkLoop(_, _, _, _, _)
ChunkLoop(desc, ndesc, idx, pattern, linelen) ==
    IF idx >= ndesc
    THEN [idx |-> idx, pattern |-> pattern, linelen |-> linelen]
    ELSE LET d == desc[idx + 1]
         IN  IF d.mode = KEYDB_SEARCH_MODE_NONE
             THEN ChunkLoop(desc, ndesc, idx + 1, pattern, linelen)
             ELSE IF ChunkFull(idx, linelen, PatternCost(d))
             THEN [idx |-> idx, pattern |-> pattern, linelen |-> linelen]
             ELSE ChunkLoop(desc, ndesc, idx + 1,
                            Append(pattern, PatternFor(d)),
                            linelen + PatternCost(d))

(* keyserver_get_chunk (ctrl, desc, ndesc, &ndesc_used, ...).  alloc_ok   *)
(* says whether every allocation succeeds, ks_get_err is what             *)
(* gpg_dirmngr_ks_get returns.  The result holds err, *r_ndesc_used, the  *)
(* pattern array and linelen, whether gpg_dirmngr_ks_get was called       *)
(* (sent), and the ndesc given to the screener (-1: nothing imported).    *)
keyserver_get_chunk(desc, ndesc, alloc_ok, ks_get_err) ==
    IF ~alloc_ok
    THEN [err |-> GPG_ERR_ENOMEM, ndesc_used |-> 0, pattern |-> <<>>,
          linelen |-> KS_GET_BASELEN, sent |-> FALSE, screen_ndesc |-> -1]
    ELSE LET p == ChunkLoop(desc, ndesc, 0, <<>>, KS_GET_BASELEN)
         IN  [err |-> ks_get_err, ndesc_used |-> p.idx,
              pattern |-> p.pattern, linelen |-> p.linelen, sent |-> TRUE,
              screen_ndesc |-> IF ks_get_err = 0 THEN p.idx ELSE -1]

\* The key blocks the server may send for a chunk.
ReturnedBlocks ==
    {<<Pkt(PKT_PUBLIC_KEY, KeyA)>>, <<Pkt(PKT_PUBLIC_KEY, KeyC)>>}

\* Mutant: the screener is given all the descriptors that were left.
ScreenReturnedAgainstAll(desc, r, kb) ==
    IF r.screen_ndesc < 0 THEN [kb |-> <<>>, rc |-> 0]
    ELSE [kb |-> kb,
          rc |-> keyserver_retrieval_screener(
                     kb, [desc |-> desc, ndesc |-> Len(desc)])]

(* import_keys_es_stream with the screener and "screenerarg.desc = desc;   *)
(* screenerarg.ndesc = *r_ndesc_used": what the screener returns for the   *)
(* key block kb read from the stream; no key block is read when            *)
(* gpg_dirmngr_ks_get failed.                                              *)
ScreenReturned(desc, r, kb) ==
    IF r.screen_ndesc < 0 THEN [kb |-> <<>>, rc |-> 0]
    ELSE [kb |-> kb,
          rc |-> keyserver_retrieval_screener(
                     kb, [desc |-> desc, ndesc |-> r.screen_ndesc])]

\* Mutant: the cursor does not move.
GetAdvanceNone(off, ndesc, r) == [off |-> off, ndesc |-> ndesc]

\* Mutant: the cursor moves by the number of patterns sent.
GetAdvanceByNpat(off, ndesc, r) ==
    [off |-> off + Len(r.pattern), ndesc |-> ndesc - Len(r.pattern)]

\* "desc += ndesc_used; ndesc -= ndesc_used;"
GetAdvance(off, ndesc, r) ==
    [off |-> off + r.ndesc_used, ndesc |-> ndesc - r.ndesc_used]

\* Mutant: only "all processed" ends the loop.
GetLoopEndsIgnoringErr(err, ndesc_used, ndesc) == ndesc_used >= ndesc

\* "if (err || ndesc_used >= ndesc) break;"
GetLoopEnds(err, ndesc_used, ndesc) == err # 0 \/ ndesc_used >= ndesc

\* Mutant: the statistics are printed whatever happened.
PrintStatsAlways(any_good) == TRUE

\* "if (any_good) import_print_stats (stats_handle);"
PrintStats(any_good) == any_good # 0

-----------------------------------------------------------------------------
(* parse_keyrec: the parser of "pub" and "uid" lines.  A C string is a     *)
(* sequence of one-character strings; a pointer that may be NULL is a      *)
(* record with a ptr field.                                                *)

\* The printable ASCII characters, from code 32 (space) to code 126 (the
\* double quote and the back quote are written by name).
Ascii ==
    <<" ", "!", "dquote", "#", "$", "%", "&", "'", "(", ")", "*", "+",
    ",", "-", ".", "/", "0", "1", "2", "3", "4", "5", "6", "7", "8", "9",
    ":", ";", "<", "=", ">", "?", "@", "A", "B", "C", "D", "E", "F", "G",
    "H", "I", "J", "K", "L", "M", "N", "O", "P", "Q", "R", "S", "T", "U",
    "V", "W", "X", "Y", "Z", "[", "\\", "]", "^", "_", "backquote", "a",
    "b", "c", "d", "e", "f", "g", "h", "i", "j", "k", "l", "m", "n", "o",
    "p", "q", "r", "s", "t", "u", "v", "w", "x", "y", "z", "{", "|", "}",
    "~">>

UpperCase == <<"A", "B", "C", "D", "E", "F", "G", "H", "I", "J", "K", "L", "M",
    "N", "O", "P", "Q", "R", "S", "T", "U", "V", "W", "X", "Y", "Z">>
LowerCase == <<"a", "b", "c", "d", "e", "f", "g", "h", "i", "j", "k", "l", "m",
    "n", "o", "p", "q", "r", "s", "t", "u", "v", "w", "x", "y", "z">>

\* ascii_tolower (c)
ascii_tolower(c) ==
    IF \E i \in 1..26 : UpperCase[i] = c
    THEN LowerCase[CHOOSE i \in 1..26 : UpperCase[i] = c]
    ELSE c

\* ascii_strcasecmp (a, b): 0 iff equal up to the case of ASCII letters.
ascii_strcasecmp(a, b) ==
    IF /\ Len(a) = Len(b)
       /\ \A i \in 1..Len(a) : ascii_tolower(a[i]) = ascii_tolower(b[i])
    THEN 0 ELSE 1

\* ascii_strncasecmp (a, b, n): the same on the first n characters (a
\* string shorter than n ends the comparison as unequal to a longer one).
ascii_strncasecmp(a, b, n) ==
    IF Len(a) >= n /\ Len(b) >= n
    THEN ascii_strcasecmp(SubSeq(a, 1, n), SubSeq(b, 1, n))
    ELSE ascii_strcasecmp(a, b)

WhiteSpace == {" ", "\t", "\n", "\r"}

\* trim_trailing_ws (line, len)
RECURSIVE trim_trailing_ws(_)
trim_trailing_ws(s) ==
    IF Len(s) > 0 /\ s[Len(s)] \in WhiteSpace
    THEN trim_trailing_ws(SubSeq(s, 1, Len(s) - 1))
    ELSE s

(* gpg_strsep (&s, delims), called again and again on a string that is    *)
(* not NULL at first, returns the fields of s between the delimiters, one *)
(* per call, and NULL once the fields are used up: call k returns         *)
(* Fields(s, delims)[k], or NULL when k > Len(Fields(s, delims)).         *)
\* The positions of the delimiters in s, in increasing order, between the
\* position before the string and the position after it.
DelimSeq(s, delims) ==
    LET IsDelim(i) == s[i] \in delims
    IN  <<0>> \o SelectSeq([i \in 1..Len(s) |-> i], IsDelim) \o <<Len(s) + 1>>

Fields(s, delims) ==
    LET pos == DelimSeq(s, delims)
    IN  [k \in 1..(Len(pos) - 1) |-> SubSeq(s, pos[k] + 1, pos[k + 1] - 1)]

Digits == <<"0", "1", "2", "3", "4", "5", "6", "7", "8", "9">>
IsDigit(c) == \E i \in 1..10 : Digits[i] = c
DigitVal(c) == (CHOOSE i \in 1..10 : Digits[i] = c) - 1

RECURSIVE AtoiDigits(_, _, _)
AtoiDigits(s, i, acc) ==
    IF i > Len(s) \/ ~IsDigit(s[i]) THEN acc
    ELSE AtoiDigits(s, i + 1, acc * 10 + DigitVal(s[i]))

RECURSIVE SkipSpace(_, _)
SkipSpace(s, i) ==
    IF i <= Len(s) /\ s[i] \in WhiteSpace THEN SkipSpace(s, i + 1) ELSE i

\* atoi (s): optional white space, an optional sign, then decimal digits
\* up to the first other character; 0 when there is no digit.
atoi(s) ==
    LET i == SkipSpace(s, 1)
    IN  IF i <= Len(s) /\ s[i] = "-" THEN 0 - AtoiDigits(s, i + 1, 0)
        ELSE IF i <= Len(s) /\ s[i] = "+" THEN AtoiDigits(s, i + 1, 0)
        ELSE AtoiDigits(s, i, 0)

LowerHex == <<"a", "b", "c", "d", "e", "f">>
IsHexDigit(c) ==
    \/ IsDigit(c)
    \/ \E i \in 1..6 : LowerHex[i] = ascii_tolower(c)
HexDigitVal(c) ==
    IF IsDigit(c) THEN DigitVal(c)
    ELSE 9 + (CHOOSE i \in 1..6 : LowerHex[i] = ascii_tolower(c))

\* The value of the hexadecimal digits s[lo..hi].
RECURSIVE HexVal(_, _, _)
HexVal(s, lo, hi) ==
    IF lo > hi THEN 0 ELSE HexVal(s, lo, hi - 1) * 16 + HexDigitVal(s[hi])

\* hextobyte (s): the byte two hexadecimal digits stand for, -1 otherwise.
hextobyte(s) ==
    IF IsHexDigit(s[1]) /\ IsHexDigit(s[2]) THEN HexVal(s, 1, 2) ELSE -1

\* The code of a printable ASCII character.
Ord(c) == 31 + (CHOOSE i \in 1..95 : Ascii[i] = c)

\* Mutant: "%XX" is copied, not decoded.
RECURSIVE PercentDecodeNone(_, _)
PercentDecodeNone(tok, i) ==
    IF i > Len(tok) THEN <<>>
    ELSE <<Ord(tok[i])>> \o PercentDecodeNone(tok, i + 1)

\* The de-%-encoding loop of the uid branch, from tok[i] on: the bytes
\* userid[0..i-1] it leaves.
RECURSIVE PercentDecode(_, _)
PercentDecode(tok, i) ==
    IF i > Len(tok) THEN <<>>
    ELSE IF tok[i] = "%" /\ i + 2 <= Len(tok)
    THEN LET c == hextobyte(SubSeq(tok, i + 1, i + 2))
         IN  <<IF c = -1 THEN Ord("?") ELSE c>> \o PercentDecode(tok, i + 3)
    ELSE <<Ord(tok[i])>> \o PercentDecode(tok, i + 1)

\* utf8_to_native (s, n, 0) on single bytes: a printable ASCII character
\* stays, any other byte is written as an escape sequence.
RECURSIVE utf8_to_native(_)
utf8_to_native(s) ==
    IF s = <<>> THEN <<>>
    ELSE LET b == s[1]
         IN  (CASE b \in 32..126 -> <<Ascii[b - 31]>>
                [] b = 10 -> <<"\\", "n">>
                [] b = 13 -> <<"\\", "r">>
                [] b = 0 -> <<"\\", "0">>
                [] OTHER -> <<"\\", "x", HexChars[(b \div 16) + 1],
                              HexChars[(b % 16) + 1]>>)
             \o utf8_to_native(Tail(s))

\* The error classify_user_id returns for a string it cannot classify.
GPG_ERR_INV_USER_ID == 37

\* The 20 bytes of u.fpr read from 2 * n hexadecimal digits.
FprFromHex(h, n) ==
    [i \in 1..20 |-> IF i <= n THEN HexVal(h, 2 * i - 1, 2 * i) ELSE 0]

(* classify_user_id (name, &desc, 1): [err, desc].  8, 16, 32 or 40       *)
(* hexadecimal digits, with or without "0x" before them, are a short key  *)
(* id, a long key id, a 16-byte and a 20-byte fingerprint; "=" starts an  *)
(* exact name; other text is a substring search; an empty string, or "0x" *)
(* before anything else, is an error.  u.name is not modelled: no caller  *)
(* below reads it.                                                        *)
classify_user_id(name) ==
    LET i == SkipSpace(name, 1)
        s == SubSeq(name, i, Len(name))
        hexprefix == Len(s) >= 2 /\ s[1] = "0" /\ s[2] = "x"
        h == IF hexprefix THEN SubSeq(s, 3, Len(s)) ELSE s
        allhex == \A k \in 1..Len(h) : IsHexDigit(h[k])
    IN  IF Len(s) = 0
        THEN [err |-> GPG_ERR_INV_USER_ID, desc |-> DescNone]
        ELSE IF allhex /\ Len(h) = 8
        THEN [err |-> 0, desc |-> DescShort(HexVal(h, 1, 8))]
        ELSE IF allhex /\ Len(h) = 16
        THEN [err |-> 0, desc |-> DescLong(HexVal(h, 1, 8), HexVal(h, 9, 16))]
        ELSE IF allhex /\ Len(h) = 32
        THEN [err |-> 0,
              desc |-> Desc(KEYDB_SEARCH_MODE_FPR16, <<0, 0>>,
                            FprFromHex(h, 16), "")]
        ELSE IF allhex /\ Len(h) = 40
        THEN [err |-> 0,
              desc |-> Desc(KEYDB_SEARCH_MODE_FPR20, <<0, 0>>,
                            FprFromHex(h, 20), "")]
        ELSE IF hexprefix
        THEN [err |-> GPG_ERR_INV_USER_ID, desc |-> DescNone]
        ELSE IF s[1] = "="
        THEN [err |-> 0, desc |-> DescExact("")]
        ELSE [err |-> 0,
              desc |-> Desc(KEYDB_SEARCH_MODE_SUBSTR, <<0, 0>>, ZeroFpr, "")]

\* A struct keyrec after xmalloc_clear, with uidbuf = iobuf_temp ().
ClearRec ==
    [desc |-> DescNone, createtime |-> 0, expiretime |-> 0, size |-> 0,
     flags |-> 0, type |-> 0, uidbuf |-> <<>>, lines |-> 0]

(* A struct keyrec pointer: ptr is "null", "valid" or "freed" (the        *)
(* storage was given to xfree and the pointer kept); rec is what the      *)
(* storage held when it was last written.                                 *)
NullRec == [ptr |-> "null", rec |-> ClearRec]
NewRec == [ptr |-> "valid", rec |-> ClearRec]

\* What a read through a freed pointer may find: what was there, or what
\* the allocator or a later owner of the storage wrote over the mode.
FreedReads(w) ==
    {w.rec,
     [w.rec EXCEPT !.desc.mode = KEYDB_SEARCH_MODE_SHORT_KID],
     [w.rec EXCEPT !.desc.mode = KEYDB_SEARCH_MODE_SUBSTR]}

\* A line handed to parse_keyrec, and the NULL that ends the parsing.
LineArg(s) == [null |-> FALSE, s |-> s]
NullLine == [null |-> TRUE, s |-> <<>>]

\* flags |= bit, for bit = 1, 2 or 4.
BitOr(flags, bit) ==
    IF (flags \div bit) % 2 = 1 THEN flags ELSE flags + bit

\* The loop "while (*tok) switch (*tok++)" over the flag characters.
RECURSIVE FlagChars(_, _, _)
FlagChars(tok, i, flags) ==
    IF i > Len(tok) THEN flags
    ELSE FlagChars(tok, i + 1,
             CASE tok[i] \in {"r", "R"} -> BitOr(flags, 1)
               [] tok[i] \in {"d", "D"} -> BitOr(flags, 2)
               [] tok[i] \in {"e", "E"} -> BitOr(flags, 4)
               [] OTHER -> flags)

(* The pub branch after a successful classification: "work->lines++" and  *)
(* the optional fields f[3..7] (type, size, creation time, expiration     *)
(* time, flags); the first gpg_strsep that returns NULL ends it.          *)
PubOptional(rec, f, now) ==
    LET r1 == [rec EXCEPT !.lines = @ + 1]
        r2 == [r1 EXCEPT !.type = atoi(f[3]) % 256]
        r3 == [r2 EXCEPT !.size = atoi(f[4])]
        r4 == [r3 EXCEPT !.createtime =
                            IF atoi(f[5]) <= 0 THEN 0 ELSE atoi(f[5])]
        r5 == IF atoi(f[6]) <= 0 THEN [r4 EXCEPT !.expiretime = 0]
              ELSE [r4 EXCEPT !.expiretime = atoi(f[6]),
                              !.flags = IF atoi(f[6]) <= now
                                        THEN BitOr(@, 4) ELSE @]
        r6 == [r5 EXCEPT !.flags = FlagChars(f[7], 1, @)]
    IN  IF Len(f) < 3 THEN r1
        ELSE IF Len(f) < 4 THEN r2
        ELSE IF Len(f) < 5 THEN r3
        ELSE IF Len(f) < 6 THEN r4
        ELSE IF Len(f) < 7 THEN r5
        ELSE r6

\* The uid branch from "userid = tok" on: the text is decoded, converted,
\* cut to screen_columns - 10 characters and written to uidbuf.
UidAppend(rec, tok, screen_columns) ==
    LET decoded == utf8_to_native(PercentDecode(tok, 1))
        shown == IF Len(decoded) > screen_columns - 10
                 THEN SubSeq(decoded, 1, screen_columns - 10)
                 ELSE decoded
    IN  [rec EXCEPT !.uidbuf = @ \o shown \o <<"\n", "\t">>,
                    !.lines = @ + 1]

\* "if (work->desc.mode) { ret = work; ... }": what a pub line returns.
PubEmits(w) ==
    IF w.rec.desc.mode # KEYDB_SEARCH_MODE_NONE THEN w ELSE NullRec

\* The end-of-parsing branch, for the record cur that work points to.
Flush(cur) ==
    IF cur.ptr = "null" THEN [work |-> cur, ret |-> NullRec]
    ELSE IF cur.rec.desc.mode = KEYDB_SEARCH_MODE_NONE
    THEN [work |-> [ptr |-> "freed", rec |-> cur.rec], ret |-> NullRec]
    ELSE [work |-> NullRec, ret |-> cur]

(* parse_keyrec (keystring) with the static work: [work, ret].  env holds *)
(* what the call reads from outside: mem (the contents found behind a     *)
(* freed work), now (make_timestamp ()) and opt.screen_columns.           *)
parse_keyrec(work, keystring, env) ==
    LET cur == IF work.ptr = "freed" THEN [work EXCEPT !.rec = env.mem]
               ELSE work
    IN  IF keystring.null THEN Flush(cur)
        ELSE
        LET w0 == IF cur.ptr = "null" THEN NewRec ELSE cur
            f == Fields(trim_trailing_ws(keystring.s), {":"})
            record == f[1]
        IN  IF ascii_strcasecmp(<<"p", "u", "b">>, record) = 0
            THEN LET ret == PubEmits(w0)
                     w1 == IF w0.rec.desc.mode # KEYDB_SEARCH_MODE_NONE
                           THEN NewRec ELSE w0
                 IN  IF Len(f) < 2 THEN [work |-> w1, ret |-> ret]
                     ELSE LET c == classify_user_id(f[2])
                          IN  IF \/ c.err # 0
                                 \/ c.desc.mode \notin IdentifyingModes
                              THEN [work |-> [w1 EXCEPT !.rec.desc = DescNone],
                                    ret |-> ret]
                              ELSE [work |->
                                      [w1 EXCEPT !.rec =
                                          PubOptional(
                                              [@ EXCEPT !.desc = c.desc],
                                              f, env.now)],
                                    ret |-> ret]
            ELSE IF /\ ascii_strcasecmp(<<"u", "i", "d">>, record) = 0
                    /\ w0.rec.desc.mode # KEYDB_SEARCH_MODE_NONE
            THEN IF Len(f) < 2 \/ Len(f[2]) = 0
                 THEN [work |-> w0, ret |-> NullRec]
                 ELSE [work |-> [w0 EXCEPT !.rec =
                                    UidAppend(@, f[2], env.screen_columns)],
                       ret |-> NullRec]
            ELSE [work |-> w0, ret |-> NullRec]

-----------------------------------------------------------------------------
(* keyserver_search, search_line_handler and show_prompt.  st is what a   *)
(* call of the handler reads and writes: parm (the session), work and     *)
(* from (the statics of parse_keyrec and show_prompt) and out (what was   *)
(* printed and which keys were fetched).  in holds what a call draws from *)
(* outside: alloc_ok, mem and now.                                        *)

GPG_ERR_UNSUPPORTED_PROTOCOL == 121
GPG_ERR_CANCELED == 99
\* DIM (numarray)
DIM_numarray == 50

\* sscanf (tok, "%d", &v): n is the return value (1 when a number was
\* read, 0 when the text is no number, -1 at the end of the input).
sscanf_d(tok) ==
    LET i == SkipSpace(tok, 1)
        j == IF i <= Len(tok) /\ tok[i] \in {"-", "+"} THEN i + 1 ELSE i
    IN  IF i > Len(tok) THEN [n |-> -1, val |-> 0]
        ELSE IF j > Len(tok) \/ ~IsDigit(tok[j]) THEN [n |-> 0, val |-> 0]
        ELSE [n |-> 1, val |-> atoi(tok)]

\* parm after "memset (&parm, 0, sizeof parm)"; desc is the array
\* parm->desc: its pointer and the entries written so far.
ZeroParm ==
    [count |-> 0, validcount |-> 0, nkeys |-> 0, any_lines |-> 0,
     numlines |-> 0, eof_seen |-> 0, not_found |-> 0,
     desc |-> [ptr |-> "null", v |-> <<>>]]

\* The handler returns err to the transport; it holds no keyrec, or has
\* closed its uidbuf and freed it.
Ret(st, err) ==
    [st |-> st, pc |-> "ret", err |-> err, site |-> "none",
     keyrec |-> NullRec]

\* The handler returns err while keyrec is neither closed nor freed.
RetHolding(st, err, keyrec) ==
    [st |-> st, pc |-> "ret", err |-> err, site |-> "none",
     keyrec |-> keyrec]

\* The handler waits in show_prompt for the answer of the user; site is
\* the call of show_prompt ("page" l.642, "last" l.594).
Suspend(st, site, keyrec) ==
    [st |-> st, pc |-> "prompt", err |-> 0, site |-> site,
     keyrec |-> keyrec]

\* show_prompt before it reads the answer: the "Keys from-numdesc of
\* count" header and the static from.
PromptHeader(st, opt, numdesc, count) ==
    IF count # 0 /\ opt.command_fd = -1
    THEN [st EXCEPT !.out = Append(@, <<"keys", st.from, numdesc, count>>),
                    !.from = numdesc + 1]
    ELSE st

\* The call show_prompt (parm->ctrl, parm->desc, parm->nkeys,
\* parm->validcount ? parm->count : 0, parm->searchstr_disp).
CallPrompt(st, opt, site, keyrec) ==
    Suspend(PromptHeader(st, opt, st.parm.nkeys,
                         IF st.parm.validcount # 0 THEN st.parm.count ELSE 0),
            site, keyrec)

SelectLoopReversed(toks, k, numdesc, sel) ==
    LET InRange(tok) == atoi(tok) >= 1 /\ atoi(tok) <= numdesc
        picked == SelectSeq(SubSeq(toks, k, Len(toks)), InRange)
    IN  IF Len(sel) + Len(picked) > DIM_numarray
        THEN [again |-> TRUE, sel |-> <<>>]
        ELSE [again |-> FALSE,
              sel |-> sel \o [i \in 1..Len(picked) |->
                                 atoi(picked[Len(picked) + 1 - i])]]
(* The loop over the tokens of the answer from token k on: [again, sel].  *)
(* sel are the numbers in numarray; again is the "goto again" of a 51st   *)
(* valid token.                                                           *)
SelectLoop(toks, k, numdesc, sel) ==
    LET InRange(tok) == atoi(tok) >= 1 /\ atoi(tok) <= numdesc
        picked == SelectSeq(SubSeq(toks, k, Len(toks)), InRange)
    IN  IF Len(sel) + Len(picked) > DIM_numarray
        THEN [again |-> TRUE, sel |-> <<>>]
        ELSE [again |-> FALSE,
              sel |-> sel \o [i \in 1..Len(picked) |-> atoi(picked[i])]]

IsQuitLowerOnly(answer) == Len(answer) > 0 /\ answer[1] \in {"EOT", "q"}
\* answer[0] is control-d, q or Q.
IsQuit(answer) == Len(answer) > 0 /\ answer[1] \in {"EOT", "q", "Q"}

AnswerInRangeAlways(answer, numdesc) == TRUE
\* The test of the whole answer before it is split (l.480).
AnswerInRange(answer, numdesc) == atoi(answer) >= 1 /\ atoi(answer) <= numdesc

(* show_prompt from the read of one answer on: [again, warn, err, get].   *)
(* again is a jump back to the read, warn the "Too many keys selected"    *)
(* printed before it; get are the descriptors handed to keyserver_get,    *)
(* which returns get_err.                                                 *)
show_prompt(desc, numdesc, answer, alloc_ok, get_err) ==
    IF IsQuit(answer)
    THEN [again |-> FALSE, warn |-> FALSE, err |-> GPG_ERR_CANCELED,
          get |-> <<>>]
    ELSE IF AnswerInRange(answer, numdesc)
    THEN LET l == SelectLoop(Fields(answer, {" ", ","}), 1, numdesc, <<>>)
         IN  IF l.again \/ Len(l.sel) = 0
             THEN [again |-> TRUE, warn |-> l.again, err |-> 0, get |-> <<>>]
             ELSE IF ~alloc_ok
             THEN [again |-> FALSE, warn |-> FALSE, err |-> GPG_ERR_ENOMEM,
                   get |-> <<>>]
             ELSE [again |-> FALSE, warn |-> FALSE, err |-> get_err,
                   get |-> [i \in 1..Len(l.sel) |-> desc[l.sel[i]]]]
    ELSE [again |-> FALSE, warn |-> FALSE, err |-> 0, get |-> <<>>]

InfoCountKept(parm, c) ==
    IF c.n # 1 THEN parm
    ELSE IF c.val = 0 THEN [parm EXCEPT !.count = 0, !.not_found = 1]
    ELSE [parm EXCEPT !.count = c.val, !.validcount = 1]
\* The count field of the info line, c = sscanf_d (tok).
InfoCount(parm, c) ==
    IF c.n # 1 THEN parm
    ELSE IF c.val = 0 THEN [parm EXCEPT !.count = 0, !.not_found = 1]
    ELSE IF c.val < 0 THEN [parm EXCEPT !.count = 10]
    ELSE [parm EXCEPT !.count = c.val, !.validcount = 1]

\* Mutant: the version of the info line is not looked at.
InfoVersionAny(f) == 1

\* The version of the info line with the fields f.
InfoVersion(f) ==
    IF sscanf_d(f[1]).n # 1 THEN 1 ELSE sscanf_d(f[1]).val

\* What parse_keyrec draws from outside in a call of the handler.
ParseEnv(opt, in) ==
    [mem |-> in.mem, now |-> in.now, screen_columns |-> opt.screen_columns]

RECURSIVE again(_, _, _, _)

(* l.639-664 without the pagination test: print_keyrec with the number    *)
(* nkeys + 1, the counting of the record and its lines, and after the end *)
(* of the stream the jump back to again.                                  *)
PrintAndCount(st, opt, keyrec, in) ==
    LET st1 == IF ~opt.with_colons
               THEN [st EXCEPT !.out = Append(@, <<"rec", st.parm.nkeys + 1,
                                                    keyrec.rec>>)]
               ELSE st
        st2 == [st1 EXCEPT !.parm.numlines = @ + keyrec.rec.lines,
                           !.parm.any_lines = 1,
                           !.parm.nkeys = @ + 1]
    IN  IF st2.parm.eof_seen # 0 THEN again(st2, opt, NullLine, in)
        ELSE Ret(st2, 0)

AfterPageNoReset(st, opt, keyrec, err, in) ==
    IF err # 0 THEN RetHolding(st, err, keyrec)
    ELSE PrintAndCount(st, opt, keyrec, in)
\* After the pagination prompt returned err (l.645-646): "if (err) return
\* err;" comes before the iobuf_close and xfree of l.653-654.
AfterPage(st, opt, keyrec, err, in) ==
    IF err # 0 THEN RetHolding(st, err, keyrec)
    ELSE PrintAndCount([st EXCEPT !.parm.numlines = 0], opt, keyrec, in)

\* Mutant: the array is enlarged one record too late.
EnsureRoomLate(parm, alloc_ok) ==
    IF parm.desc.ptr = "null"
    THEN LET p1 == IF parm.count < 1
                   THEN [parm EXCEPT !.count = 10, !.validcount = 0]
                   ELSE parm
         IN  IF ~alloc_ok THEN [err |-> GPG_ERR_ENOMEM, parm |-> p1]
             ELSE [err |-> 0, parm |-> [p1 EXCEPT !.desc.ptr = "valid"]]
    ELSE IF parm.nkeys > parm.count
    THEN IF ~alloc_ok THEN [err |-> GPG_ERR_ENOMEM, parm |-> parm]
         ELSE [err |-> 0,
               parm |-> [parm EXCEPT !.count = @ + 10, !.validcount = 0]]
    ELSE [err |-> 0, parm |-> parm]
EnsureRoomByOne(parm, alloc_ok) ==
    IF parm.desc.ptr = "null"
    THEN LET p1 == IF parm.count < 1
                   THEN [parm EXCEPT !.count = 10, !.validcount = 0]
                   ELSE parm
         IN  IF ~alloc_ok THEN [err |-> GPG_ERR_ENOMEM, parm |-> p1]
             ELSE [err |-> 0, parm |-> [p1 EXCEPT !.desc.ptr = "valid"]]
    ELSE IF parm.nkeys = parm.count
    THEN IF ~alloc_ok THEN [err |-> GPG_ERR_ENOMEM, parm |-> parm]
         ELSE [err |-> 0,
               parm |-> [parm EXCEPT !.count = @ + 1, !.validcount = 0]]
    ELSE [err |-> 0, parm |-> parm]
\* "Allocate or enlarge the key array if needed" (l.606-635): [err, parm].
EnsureRoom(parm, alloc_ok) ==
    IF parm.desc.ptr = "null"
    THEN LET p1 == IF parm.count < 1
                   THEN [parm EXCEPT !.count = 10, !.validcount = 0]
                   ELSE parm
         IN  IF ~alloc_ok THEN [err |-> GPG_ERR_ENOMEM, parm |-> p1]
             ELSE [err |-> 0, parm |-> [p1 EXCEPT !.desc.ptr = "valid"]]
    ELSE IF parm.nkeys = parm.count
    THEN IF ~alloc_ok THEN [err |-> GPG_ERR_ENOMEM, parm |-> parm]
         ELSE [err |-> 0,
               parm |-> [parm EXCEPT !.count = @ + 10, !.validcount = 0]]
    ELSE [err |-> 0, parm |-> parm]

\* "Save the key in the key array" (l.604-662) for a keyrec that is not
\* NULL.
SaveKey(st, opt, keyrec, in) ==
    LET room == EnsureRoom(st.parm, in.alloc_ok)
        st1 == [st EXCEPT !.parm = room.parm]
        st2 == [st1 EXCEPT !.parm.desc.v =
                   Append(SubSeq(@, 1, st1.parm.nkeys), keyrec.rec.desc)]
    IN  IF room.err # 0 THEN Ret(st1, room.err)
        ELSE IF /\ ~opt.with_colons
                /\ st2.parm.numlines + keyrec.rec.lines > opt.screen_lines - 1
        THEN CallPrompt(st2, opt, "page", keyrec)
        ELSE PrintAndCount(st2, opt, keyrec, in)

\* Mutant: the count stays trusted whatever the number of records.
AtEofTrusting(st, opt) ==
    IF st.parm.nkeys = 0 THEN Ret([st EXCEPT !.parm.not_found = 1], 0)
    ELSE IF ~(opt.with_colons /\ opt.batch)
    THEN CallPrompt(st, opt, "last", NullRec)
    ELSE Ret(st, 0)

AtEofEither(st, opt) ==
    IF st.parm.nkeys = 0 THEN Ret([st EXCEPT !.parm.not_found = 1], 0)
    ELSE LET st1 == IF st.parm.nkeys # st.parm.count
                    THEN [st EXCEPT !.parm.validcount = 0] ELSE st
         IN  IF ~(opt.with_colons \/ opt.batch)
             THEN CallPrompt(st1, opt, "last", NullRec)
             ELSE Ret(st1, 0)
\* The end of the stream once parse_keyrec (NULL) returned NULL
\* (l.587-600).
AtEof(st, opt) ==
    IF st.parm.nkeys = 0 THEN Ret([st EXCEPT !.parm.not_found = 1], 0)
    ELSE LET st1 == IF st.parm.nkeys # st.parm.count
                    THEN [st EXCEPT !.parm.validcount = 0] ELSE st
         IN  IF ~(opt.with_colons /\ opt.batch)
             THEN CallPrompt(st1, opt, "last", NullRec)
             ELSE Ret(st1, 0)

\* search_line_handler from the label again on (l.580-664).
again(st, opt, line, in) ==
    LET st0 == IF line.null THEN [st EXCEPT !.parm.eof_seen = 1] ELSE st
        r == parse_keyrec(st0.work, line, ParseEnv(opt, in))
        st1 == [st0 EXCEPT !.work = r.work]
    IN  IF r.ret.ptr # "null" THEN SaveKey(st1, opt, r.ret, in)
        ELSE IF line.null THEN AtEof(st1, opt)
        ELSE Ret(st1, 0)

\* "line && !parm->any_lines && !ascii_strncasecmp ("info:", line, 5)"
IsInfoLine(parm, line) ==
    /\ ~line.null
    /\ parm.any_lines = 0
    /\ ascii_strncasecmp(<<"i", "n", "f", "o", ":">>, line.s, 5) = 0

\* search_line_handler (opaque, special, line)
search_line_handler(st, opt, special, line, in) ==
    IF special # 0 THEN Ret(st, 0)
    ELSE
    LET ln == IF st.parm.eof_seen # 0 /\ ~line.null THEN NullLine ELSE line
        st0 == IF opt.with_colons /\ ~ln.null
               THEN [st EXCEPT !.out = Append(@, <<"line", ln.s>>)]
               ELSE st
    IN  IF IsInfoLine(st0.parm, ln)
        THEN LET f == Fields(SubSeq(ln.s, 6, Len(ln.s)), {":"})
             IN  IF InfoVersion(f) # 1
                 THEN Ret(st0, GPG_ERR_UNSUPPORTED_PROTOCOL)
                 ELSE LET p1 == IF Len(f) >= 2
                                THEN InfoCount(st0.parm, sscanf_d(f[2]))
                                ELSE st0.parm
                      IN  Ret([st0 EXCEPT !.parm = [p1 EXCEPT !.any_lines = 1]],
                              0)
        ELSE again(st0, opt, ln, in)

-----------------------------------------------------------------------------
(* The state machine. *)

ScreenIdle ==
    /\ sc_pc = "idle"
    /\ sc_keyblock = <<>>
    /\ sc_arg = [desc |-> <<>>, ndesc |-> 0]
    /\ sc_rc = 0

GetIdle ==
    /\ g_pc = "idle"
    /\ g_desc = <<>>
    /\ g_off = 0
    /\ g_ndesc = 0
    /\ g_err = 0
    /\ g_any_good = 0
    /\ g_chunks = <<>>
    /\ g_stats = FALSE
    /\ g_ret = 0

\* The options as gpg sets them before any command runs and no option
\* changes them, and the statics as the program starts with them.
DefaultOpt ==
    [with_colons |-> FALSE, batch |-> FALSE, screen_lines |-> 24,
     screen_columns |-> 80, command_fd |-> -1]

StaticInit ==
    /\ st_opt = DefaultOpt
    /\ st_work = NullRec
    /\ st_from = 1

ParseIdle ==
    /\ p_fed = <<>>
    /\ p_rets = <<>>

PromptIdle ==
    /\ pr_pc = "off"
    /\ pr_arg = [desc |-> <<>>, numdesc |-> 0, count |-> 0]
    /\ pr_in = <<>>
    /\ pr_out = <<>>
    /\ pr_err = 0

RefreshIdle ==
    /\ rf_pc = "off"
    /\ rf_import_options = {}
    /\ rf_options = {}
    /\ rf_trustdb = FALSE
    /\ rf_err = 0

ImportIdle ==
    /\ im_pc = "off"
    /\ im_users = <<>>
    /\ im_log = <<>>
    /\ im_calls = 0
    /\ im_rc = 0

SearchIdle ==
    /\ s_pc = "off"
    /\ s_parm = ZeroParm
    /\ s_site = "none"
    /\ s_keyrec = NullRec
    /\ s_fed = <<>>
    /\ s_out = <<>>
    /\ s_err = 0
    /\ s_in = <<>>
    /\ s_run = 0

\* The importer has a key block and the requested descriptors at hand.
ScreenInit ==
    /\ sc_pc = "call"
    /\ sc_keyblock \in SeqsOf(ScreenPackets, 1, MaxPkts)
    /\ \E desc \in SeqsOf(ScreenDescs, 0, MaxReq) :
          sc_arg = [desc |-> desc, ndesc |-> Len(desc)]
    /\ sc_rc = 0

\* import_keys_es_stream calls the screener on the key block.
Screen ==
    /\ sc_pc = "call"
    /\ sc_rc' = keyserver_retrieval_screener(sc_keyblock, sc_arg)
    /\ sc_pc' = "ret"
    /\ UNCHANGED <<sc_keyblock, sc_arg, getVars, staticVars, parseVars,
                   searchVars, promptVars, importVars, refreshVars>>

ScreenNext == Screen

InitScreen ==
    ScreenInit /\ GetIdle /\ StaticInit
    /\ ParseIdle /\ SearchIdle /\ PromptIdle /\ ImportIdle
    /\ RefreshIdle

SpecScreen == InitScreen /\ [][ScreenNext]_vars

\* keyserver_get has been called with 1..MaxDesc descriptors and is about
\* to enter its loop (stats_handle is new, any_good = 0).
GetInit ==
    /\ g_pc = "loop"
    /\ g_desc \in SeqsOf(GetDescs, 1, MaxDesc)
    /\ g_off = 0
    /\ g_ndesc = Len(g_desc)
    /\ g_err = 0
    /\ g_any_good = 0
    /\ g_chunks = <<>>
    /\ g_stats = FALSE
    /\ g_ret = 0

(* One turn of the for(;;) loop of keyserver_get: a keyserver_get_chunk   *)
(* call and, when the loop ends with it, the rest of the function.        *)
GetChunk ==
    /\ g_pc = "loop"
    /\ \E alloc_ok \in BOOLEAN, ks_get_err \in {0} \cup TransportErrors :
       \E kb \in IF alloc_ok /\ ks_get_err = 0 THEN ReturnedBlocks
                  ELSE {<<>>} :
          LET desc == SubSeq(g_desc, g_off + 1, g_off + g_ndesc)
              c == keyserver_get_chunk(desc, g_ndesc, alloc_ok, ks_get_err)
              r == c @@ [screened |-> ScreenReturned(desc, c, kb)]
              good == IF r.err = 0 THEN 1 ELSE g_any_good
              next == GetAdvance(g_off, g_ndesc, r)
          IN  /\ g_chunks' = Append(g_chunks, [off |-> g_off] @@ r)
              /\ g_err' = r.err
              /\ g_any_good' = good
              /\ IF GetLoopEnds(r.err, r.ndesc_used, g_ndesc)
                 THEN /\ g_pc' = "done"
                      /\ g_stats' = PrintStats(good)
                      /\ g_ret' = r.err
                      /\ UNCHANGED <<g_off, g_ndesc>>
                 ELSE /\ g_pc' = "loop"
                      /\ g_off' = next.off
                      /\ g_ndesc' = next.ndesc
                      /\ UNCHANGED <<g_stats, g_ret>>
    /\ UNCHANGED <<g_desc, screenVars, staticVars, parseVars, searchVars,
                   promptVars, importVars, refreshVars>>

GetNext == GetChunk

InitGet ==
    GetInit /\ ScreenIdle /\ StaticInit
    /\ ParseIdle /\ SearchIdle /\ PromptIdle /\ ImportIdle
    /\ RefreshIdle

SpecGet == InitGet /\ [][GetNext]_vars

\* keyserver_get runs in one thread and nothing suspends it: a turn of
\* its loop that can be taken is taken.
SpecGetFair == SpecGet /\ WF_vars(GetChunk)

-----------------------------------------------------------------------------
(* parse_keyrec called on its own, and one keyserver_search. *)

\* The lines parse_keyrec is fed.
ParseLines ==
    <<<<"p", "u", "b", ":", "1", "2", "3", "4", "5", "6", "7", "8", "1",
       "2", "3", "4", "5", "6", "7", "8", ":", "1", ":", "2", "0", "4", "8",
       ":", "1", "0", "0", "0", "0", "0", "0", "0", "0", "0", ":", "0", ":">>,
      <<"u", "i", "d", ":", "%", "4", "1", "%", "4", "2", ":">>,
      <<"p", "u", "b", ":", "n", "o", "t", "-", "a", "-", "k", "e", "y",
       ":">>,
      <<"p", "u", "b", ":", "0", "B", "A", "D", "F", "0", "0", "D">>,
      <<"P", "U", "B", ":", "0", "x", "1", "2", "3", "4", "5", "6", "7",
       "8", "1", "2", "3", "4", "5", "6", "7", "8", ":", "1", "7", ":", "1",
       "0", "2", "4", ":", "-", "5", ":", "1", "4", "0", "0", "0", "0", "0",
       "0", "0", "0", ":", "r", "D", "x", ":">>,
      <<"U", "i", "d", ":", "a", "%", "z", "z", "b", "%", "4">>,
      <<"p", "u", "b", ":", "0", "B", "A", "D", "F", "0", "0", "D", ":",
       "1", ":", "2", "0", "4", "8">>,
      <<"p", "u", "b", ":", "0", "x", "1", "2", "3", "4", "5", "6", "7",
       "8", "1", "2", "3", "4", "5", "6", "7", "8", ":", "1", "7", ":", "1",
       "0", "2", "4", ":", "1", "0", "0", "0", "0", "0", "0", "0", "0", "0">>,
      <<"s", "i", "g", ":", "0", "B", "A", "D", "F", "0", "0", "D", ":">>>>

\* The data lines a keyserver answers a search with.
SearchLines ==
    <<<<"i", "n", "f", "o", ":", "1", ":", "0", ":">>,
      <<"i", "n", "f", "o", ":", "2", ":", "5", ":">>,
      <<"i", "n", "f", "o", ":", "1", ":", "1", ":">>,
      <<"p", "u", "b", ":", "1", "2", "3", "4", "5", "6", "7", "8", "1",
       "2", "3", "4", "5", "6", "7", "8", ":", "1", ":", "2", "0", "4", "8",
       ":", "1", "0", "0", "0", "0", "0", "0", "0", "0", "0", ":", "0", ":">>,
      <<"u", "i", "d", ":", "%", "4", "1", "%", "4", "2", ":">>,
      <<"p", "u", "b", ":", "n", "o", "t", "-", "a", "-", "k", "e", "y",
       ":">>,
      <<"p", "u", "b", ":", "0", "B", "A", "D", "F", "0", "0", "D">>,
      <<"i", "n", "f", "o", ":", "1", ":", "-", "3", ":">>,
      <<"i", "n", "f", "o", ":", "1", ":", "2", ":">>>>

\* The answers typed at the prompt ("EOT" is control-d).
Answers == {<<"q">>, <<"Q">>, <<"EOT">>, <<"1">>, <<"n">>}

\* The values of make_timestamp ().
Timestamps == {1500000000}

\* --with-colons and --batch; the screen is one of 24 lines, or one so
\* small that a record fills it.
Opts ==
    [with_colons : BOOLEAN, batch : BOOLEAN, screen_lines : {2, 24},
     screen_columns : {80}, command_fd : {-1}]

\* What a read through work may find.
MemChoices(w) == IF w.ptr = "freed" THEN FreedReads(w) ELSE {w.rec}

ParseInit ==
    /\ st_opt = DefaultOpt
    /\ st_work = NullRec
    /\ st_from = 1
    /\ ParseIdle

\* parse_keyrec (keystring) for the line ParseLines[id], or for NULL when
\* id is 0.
ParseCall(id) ==
    \E mem \in MemChoices(st_work), now \in Timestamps :
       LET r == parse_keyrec(st_work,
                             IF id = 0 THEN NullLine
                             ELSE LineArg(ParseLines[id]),
                             [mem |-> mem, now |-> now,
                              screen_columns |-> st_opt.screen_columns])
       IN  /\ st_work' = r.work
           /\ p_fed' = Append(p_fed, id)
           /\ p_rets' = Append(p_rets, r.ret)

ParseLine ==
    /\ Len(p_fed) < MaxFeed
    /\ \E id \in 1..Len(ParseLines) : ParseCall(id)
    /\ UNCHANGED <<st_opt, st_from, screenVars, getVars, searchVars,
                   promptVars, importVars, refreshVars>>

ParseFlush ==
    /\ Len(p_fed) < MaxFeed
    /\ ParseCall(0)
    /\ UNCHANGED <<st_opt, st_from, screenVars, getVars, searchVars,
                   promptVars, importVars, refreshVars>>

ParseNext == ParseLine \/ ParseFlush

InitParse ==
    ParseInit /\ ScreenIdle /\ GetIdle
    /\ SearchIdle /\ PromptIdle /\ ImportIdle
    /\ RefreshIdle

SpecParse == InitParse /\ [][ParseNext]_vars

SearchInit ==
    /\ st_opt \in Opts
    /\ st_work = NullRec
    /\ st_from = 1
    /\ s_pc = "idle"
    /\ s_parm = ZeroParm
    /\ s_site = "none"
    /\ s_keyrec = NullRec
    /\ s_fed = <<>>
    /\ s_out = <<>>
    /\ s_err = 0
    /\ s_in = <<>>
    /\ s_run = 1

\* keyserver_search up to the call of gpg_dirmngr_ks_search (l.986-1016).
SearchStart ==
    /\ s_pc = "idle"
    /\ \E tokens_empty \in BOOLEAN :
          s_pc' = IF tokens_empty THEN "done" ELSE "recv"
    /\ s_parm' = ZeroParm
    /\ UNCHANGED <<s_site, s_keyrec, s_fed, s_out, s_err, s_in, s_run,
                   staticVars, parseVars, screenVars, getVars, promptVars,
                   importVars, refreshVars>>

\* keyserver_search after gpg_dirmngr_ks_search returned err (l.1019-1059).
SearchReturn(st, err) ==
    /\ s_pc' = "done"
    /\ s_err' = err
    /\ s_out' = st.out
                \o (IF st.parm.not_found # 0 THEN <<<<"not found">>>>
                    ELSE <<>>)
                \o (IF err # 0 THEN <<<<"error", err>>>> ELSE <<>>)
    /\ s_site' = "none"

(* What follows a run res of the handler: it waits at a prompt, or it     *)
(* returned; gpg_dirmngr_ks_search returns when the handler returned an   *)
(* error or was called for the EOF, and calls it for the next line        *)
(* otherwise.                                                             *)
SearchStep(res) ==
    /\ s_parm' = res.st.parm
    /\ st_work' = res.st.work
    /\ st_from' = res.st.from
    /\ IF res.pc = "prompt"
       THEN /\ s_pc' = "prompt"
            /\ s_site' = res.site
            /\ s_keyrec' = res.keyrec
            /\ s_out' = res.st.out
            /\ UNCHANGED s_err
       ELSE IF res.err # 0 \/ res.st.parm.eof_seen # 0
       THEN SearchReturn(res.st, res.err) /\ s_keyrec' = res.keyrec
       ELSE /\ s_pc' = "recv"
            /\ s_site' = "none"
            /\ s_keyrec' = res.keyrec
            /\ s_out' = res.st.out
            /\ UNCHANGED s_err

HandlerState ==
    [parm |-> s_parm, work |-> st_work, from |-> st_from, out |-> s_out]

(* gpg_dirmngr_ks_search calls the handler: for a line that names the     *)
(* source of the data (special), for the data line SearchLines[id], or,   *)
(* when id is 0, for the EOF, which it sends once, after the last line.   *)
Recv ==
    /\ s_pc = "recv"
    /\ \E id \in 0..Len(SearchLines), special \in {0, 1, 2},
          alloc_ok \in BOOLEAN, mem \in MemChoices(st_work),
          now \in Timestamps :
          /\ id # 0 /\ special = 0
                => Len(s_fed) < (IF s_run = 1 THEN MaxLines ELSE MaxLinesAgain)
          /\ special # 0 => id # 0
          /\ LET line == IF id = 0 THEN NullLine ELSE LineArg(SearchLines[id])
                 in == [alloc_ok |-> alloc_ok, mem |-> mem, now |-> now]
             IN  SearchStep(search_line_handler(HandlerState, st_opt, special,
                                                line, in))
          /\ s_fed' = IF special = 0 THEN Append(s_fed, id) ELSE s_fed
    /\ UNCHANGED <<st_opt, s_in, s_run, parseVars, screenVars, getVars,
                   promptVars, importVars, refreshVars>>

\* gpg_dirmngr_ks_search fails: it returns an error of its own and no EOF
\* is sent.
TransportFail ==
    /\ s_pc = "recv"
    /\ \E err \in TransportErrors : SearchReturn(HandlerState, err)
    /\ UNCHANGED <<s_parm, s_keyrec, s_fed, s_in, s_run, staticVars,
                   parseVars, screenVars, getVars, promptVars, importVars,
                   refreshVars>>

(* show_prompt reads one answer; the handler that called it goes on from  *)
(* there.  keyserver_get returns what its transport makes of the request. *)
Answer ==
    /\ s_pc = "prompt"
    /\ \E a \in Answers, alloc_ok \in BOOLEAN,
          get_err \in {0} \cup TransportErrors,
          mem \in MemChoices(st_work), now \in Timestamps :
          LET r == show_prompt(s_parm.desc.v, s_parm.nkeys, a, alloc_ok,
                               get_err)
              st == IF r.get # <<>>
                    THEN [HandlerState EXCEPT
                             !.out = Append(@, <<"get", r.get, "NULL",
                                                 get_err>>)]
                    ELSE HandlerState
              in == [alloc_ok |-> alloc_ok, mem |-> mem, now |-> now]
          IN  /\ s_in' = Append(s_in, a)
              /\ IF r.again
                 THEN /\ s_out' = s_out
                            \o (IF r.warn THEN <<<<"too many">>>> ELSE <<>>)
                      /\ UNCHANGED <<s_pc, s_parm, s_site, s_keyrec, s_err,
                                     st_work, st_from>>
                 ELSE IF s_site = "last" THEN SearchStep(Ret(st, r.err))
                 ELSE SearchStep(AfterPage(st, st_opt, s_keyrec, r.err, in))
    /\ UNCHANGED <<st_opt, s_fed, s_run, parseVars, screenVars, getVars,
                   promptVars, importVars, refreshVars>>

SearchNext == SearchStart \/ Recv \/ TransportFail \/ Answer

InitSearch ==
    SearchInit /\ ScreenIdle /\ GetIdle
    /\ ParseIdle /\ PromptIdle /\ ImportIdle
    /\ RefreshIdle

SpecSearch == InitSearch /\ [][SearchNext]_vars

(* keyserver_search is called once more in the same process: parm is new, *)
(* the statics of parse_keyrec and show_prompt are what the call before   *)
(* left.                                                                  *)
SearchAgain ==
    /\ s_pc = "done"
    /\ s_run < MaxSearch
    /\ s_run' = s_run + 1
    /\ \E tokens_empty \in BOOLEAN :
          s_pc' = IF tokens_empty THEN "done" ELSE "recv"
    /\ s_parm' = ZeroParm
    /\ s_site' = "none"
    /\ s_keyrec' = NullRec
    /\ s_fed' = <<>>
    /\ s_out' = <<>>
    /\ s_err' = 0
    /\ s_in' = <<>>
    /\ UNCHANGED <<staticVars, parseVars, screenVars, getVars, promptVars,
                   importVars, refreshVars>>

SearchesNext == SearchNext \/ SearchAgain

SpecSearches == InitSearch /\ [][SearchesNext]_vars

-----------------------------------------------------------------------------
(* show_prompt called on its own. *)

\* n times the token "1", with commas between them.
RECURSIVE Ones(_)
Ones(n) == IF n = 1 THEN <<"1">> ELSE Ones(n - 1) \o <<",", "1">>

\* The answers typed at the prompt ("EOT" is control-d): to quit, for the
\* next page, numbers, and as many numbers as numarray holds and one more.
PromptAnswers ==
    {<<"q">>,
     <<"Q">>,
     <<"n">>,
     <<>>,
     <<"1">>,
     <<"0">>,
     <<"9", "9">>,
     <<"1", ",", "3", ",", "9", "9">>,
     <<"9", "9", ",", "1">>,
     <<"3", " ", "x", ",", "2">>,
     <<"2", "x">>,
     <<"EOT">>, Ones(DIM_numarray), Ones(DIM_numarray + 1),
     <<"0", ",">> \o Ones(DIM_numarray + 1)}

\* The array parm->desc with n records found.
PromptDescs(n) ==
    LET found == <<DescLong(305419896, 305419896), DescShort(195948557),
                   DescFpr20(FprA)>>
    IN  [i \in 1..n |-> found[((i - 1) % Len(found)) + 1]]

\* search_line_handler calls show_prompt with the nkeys records found so
\* far and the count of the info line, 0 when there is none to trust.
PromptInit ==
    /\ pr_pc = "call"
    /\ \E n \in 0..MaxKeys, count \in {0, 10} \cup 0..MaxKeys :
          pr_arg = [desc |-> PromptDescs(n), numdesc |-> n, count |-> count]
    /\ pr_in = <<>>
    /\ pr_out = <<>>
    /\ pr_err = 0

\* show_prompt up to the first read (l.454-465).
PromptCall ==
    /\ pr_pc = "call"
    /\ LET st == PromptHeader([out |-> pr_out, from |-> st_from], st_opt,
                              pr_arg.numdesc, pr_arg.count)
       IN  pr_out' = st.out /\ st_from' = st.from
    /\ pr_pc' = "read"
    /\ UNCHANGED <<pr_arg, pr_in, pr_err, st_opt, st_work, screenVars, getVars,
                   parseVars, searchVars, importVars, refreshVars>>

(* show_prompt reads one answer (l.467-516): it jumps back to the read,   *)
(* or returns, after the call of keyserver_get (selarray, numidx, NULL,   *)
(* 0, NULL, NULL) when keys were selected.                                *)
PromptRead ==
    /\ pr_pc = "read"
    /\ Len(pr_in) < MaxAnswers
    /\ \E a \in PromptAnswers, alloc_ok \in BOOLEAN,
          get_err \in {0} \cup TransportErrors :
          LET r == show_prompt(pr_arg.desc, pr_arg.numdesc, a, alloc_ok,
                               get_err)
          IN  /\ pr_in' = Append(pr_in, [answer |-> a, alloc_ok |-> alloc_ok])
              /\ pr_out' = pr_out
                    \o (IF r.warn THEN <<<<"too many">>>> ELSE <<>>)
                    \o (IF r.get # <<>>
                        THEN <<<<"get", r.get, "NULL", get_err>>>>
                        ELSE <<>>)
              /\ pr_pc' = IF r.again THEN "read" ELSE "ret"
              /\ pr_err' = r.err
    /\ UNCHANGED <<pr_arg, staticVars, screenVars, getVars, parseVars,
                   searchVars, importVars, refreshVars>>

PromptNext == PromptCall \/ PromptRead

InitPrompt ==
    PromptInit /\ StaticInit /\ ScreenIdle
    /\ GetIdle /\ ParseIdle /\ SearchIdle /\ ImportIdle
    /\ RefreshIdle

SpecPrompt == InitPrompt /\ [][PromptNext]_vars

-----------------------------------------------------------------------------
(* keyserver_import *)

\* Mutant: every string classify_user_id accepts is taken.
IsKeyIdOrName(c) == c.err = 0

\* The test of the loop negated: the string is taken when classify_user_id
\* succeeded and found a key id or a fingerprint.
IsKeyId(c) ==
    /\ c.err = 0
    /\ \/ c.desc.mode = KEYDB_SEARCH_MODE_SHORT_KID
       \/ c.desc.mode = KEYDB_SEARCH_MODE_LONG_KID
       \/ c.desc.mode = KEYDB_SEARCH_MODE_FPR16
       \/ c.desc.mode = KEYDB_SEARCH_MODE_FPR20

(* The loop over users from users[i] on: desc[0..count-1] is desc, num is  *)
(* the capacity of the array, log holds the strings log_error reported.    *)
RECURSIVE ImportLoop(_, _, _, _, _)
ImportLoop(users, i, desc, num, log) ==
    IF i > Len(users) THEN [desc |-> desc, num |-> num, log |-> log]
    ELSE LET c == classify_user_id(users[i])
         IN  IF ~IsKeyId(c)
             THEN ImportLoop(users, i + 1, desc, num, Append(log, users[i]))
             ELSE ImportLoop(users, i + 1, Append(desc, c.desc),
                             IF Len(desc) + 1 = num THEN num + 100 ELSE num,
                             log)

\* The strings keyserver_import may be given.
ImportUsers ==
    {<<"1", "2", "3", "4", "5", "6", "7", "8">>,
     <<"0", "x", "1", "2", "3", "4", "5", "6", "7", "8", "1", "2", "3", "4", "5", "6", "7", "8">>,
     <<"0", "0", "1", "1", "2", "2", "3", "3", "4", "4", "5", "5", "6", "6", "7", "7", "8", "8", "9", "9", "A", "A", "B", "B", "C", "C", "D", "D", "E", "E", "F", "F">>,
     <<"0", "1", "2", "3", "4", "5", "6", "7", "8", "9", "A", "B", "C", "D", "E", "F", "0", "1", "2", "3", "4", "5", "6", "7", "8", "9", "A", "B", "C", "D", "E", "F", "0", "1", "2", "3", "4", "5", "6", "7">>,
     <<"a", "l", "i", "c", "e">>, <<>>, <<"0", "x", "Z", "Z">>, <<"=", "B", "o", "b">>}

\* keyserver_import has been called with 0..MaxUsers strings.
ImportInit ==
    /\ im_pc = "call"
    /\ im_users \in SeqsOf(ImportUsers, 0, MaxUsers)
    /\ im_log = <<>>
    /\ im_calls = 0
    /\ im_rc = 0

(* keyserver_import up to its call of keyserver_get, or to its return when *)
(* count is 0.                                                             *)
ImportBuild ==
    /\ im_pc = "call"
    /\ LET r == ImportLoop(im_users, 1, <<>>, 100, <<>>)
           count == Len(r.desc)
       IN  /\ im_log' = r.log
           /\ IF count > 0
              THEN /\ im_pc' = "get"
                   /\ im_calls' = im_calls + 1
                   /\ g_pc' = "loop"
                   /\ g_desc' = r.desc
                   /\ g_ndesc' = count
                   /\ UNCHANGED <<im_rc, g_off, g_err, g_any_good, g_chunks,
                                  g_stats, g_ret>>
              ELSE /\ im_pc' = "done"
                   /\ im_rc' = 0
                   /\ UNCHANGED <<im_calls, getVars>>
    /\ UNCHANGED <<im_users, screenVars, staticVars, parseVars, searchVars,
                   promptVars, refreshVars>>

\* keyserver_get has returned: rc is its value, desc is freed.
ImportReturn ==
    /\ im_pc = "get"
    /\ g_pc = "done"
    /\ im_pc' = "done"
    /\ im_rc' = g_ret
    /\ UNCHANGED <<im_users, im_log, im_calls, getVars, screenVars,
                   staticVars, parseVars, searchVars, promptVars, refreshVars>>

ImportNext == ImportBuild \/ GetChunk \/ ImportReturn

InitImport ==
    ImportInit /\ GetIdle /\ ScreenIdle /\ StaticInit
    /\ ParseIdle /\ SearchIdle /\ PromptIdle
    /\ RefreshIdle

SpecImport == InitImport /\ [][ImportNext]_vars

-----------------------------------------------------------------------------
(* keyserver_refresh *)

(* The bits of opt.keyserver_options.import_options, as the set of the    *)
(* flags that are on: "|=" is the union with a flag.                       *)
IMPORT_MERGE_ONLY == "IMPORT_MERGE_ONLY"
IMPORT_FAST == "IMPORT_FAST"
IMPORT_LOCAL_SIGS == "IMPORT_LOCAL_SIGS"
IMPORT_MINIMAL == "IMPORT_MINIMAL"
ImportFlags ==
    {IMPORT_MERGE_ONLY, IMPORT_FAST, IMPORT_LOCAL_SIGS, IMPORT_MINIMAL}

(* What keyidlist may give: the error of a keydb_new that failed, or a     *)
(* fingerprint for each v4 key and a long key id for each v3 key that the  *)
(* keyring holds.                                                          *)
KeyidlistResults ==
    {[err |-> GPG_ERR_ENOMEM, klist |-> <<>>]}
    \cup {[err |-> 0, klist |-> l] :
             l \in SeqsOf({DescFpr20(FprA),
                           DescLong(715784193, 448585456)}, 0, MaxRefresh)}

\* keyserver_refresh has been entered: options holds the import options.
RefreshInit ==
    /\ rf_pc = "call"
    /\ rf_import_options \in SUBSET ImportFlags
    /\ rf_options = rf_import_options
    /\ rf_trustdb = FALSE
    /\ rf_err = 0

(* The end of keyserver_refresh from "xfree (desc)" on: the options are    *)
(* put back, the trustdb is checked unless fast import was on before, and  *)
(* err is returned.                                                        *)
RefreshRestore(err) ==
    /\ rf_pc' = "done"
    /\ rf_import_options' = rf_options
    /\ rf_trustdb' = (IMPORT_FAST \notin rf_options)
    /\ rf_err' = err

(* keyserver_refresh up to its call of keyserver_get, or to its return     *)
(* when keyidlist failed, no key was found or gpg_dirmngr_ks_list failed.  *)
RefreshStart ==
    /\ rf_pc = "call"
    /\ \E k \in KeyidlistResults, list_err \in {0} \cup TransportErrors :
          LET switched == rf_import_options
                          \cup {IMPORT_MERGE_ONLY, IMPORT_FAST}
          IN  IF k.err # 0
              THEN /\ rf_pc' = "done"
                   /\ rf_import_options' = switched
                   /\ rf_err' = k.err
                   /\ UNCHANGED <<rf_trustdb, getVars>>
              ELSE IF Len(k.klist) = 0 \/ list_err # 0
              THEN /\ RefreshRestore(IF Len(k.klist) = 0 THEN 0 ELSE list_err)
                   /\ UNCHANGED getVars
              ELSE /\ rf_pc' = "get"
                   /\ rf_import_options' = switched
                   /\ g_pc' = "loop"
                   /\ g_desc' = k.klist
                   /\ g_ndesc' = Len(k.klist)
                   /\ UNCHANGED <<rf_trustdb, rf_err, g_off, g_err,
                                  g_any_good, g_chunks, g_stats, g_ret>>
    /\ UNCHANGED <<rf_options, screenVars, staticVars, parseVars, searchVars,
                   promptVars, importVars>>

\* keyserver_get has returned.
RefreshReturn ==
    /\ rf_pc = "get"
    /\ g_pc = "done"
    /\ RefreshRestore(g_ret)
    /\ UNCHANGED <<rf_options, getVars, screenVars, staticVars, parseVars,
                   searchVars, promptVars, importVars>>

RefreshNext == RefreshStart \/ GetChunk \/ RefreshReturn

InitRefresh ==
    RefreshInit /\ GetIdle /\ ScreenIdle /\ StaticInit
    /\ ParseIdle /\ SearchIdle /\ PromptIdle /\ ImportIdle

SpecRefresh == InitRefresh /\ [][RefreshNext]_vars

-----------------------------------------------------------------------------
(* Claims about keyserver_retrieval_screener (SpecScreen). *)

HasSecretKey(keyblock) ==
    \E i \in 1..Len(keyblock) : keyblock[i].pkttype = PKT_SECRET_KEY

IsPublicPkt(p) == p.pkttype \in {PKT_PUBLIC_KEY, PKT_PUBLIC_SUBKEY}

\* The match the contract states, mode by mode.
ClaimedMatch(d, pk) ==
    \/ d.mode = KEYDB_SEARCH_MODE_FPR20 /\ Len(pk.fpr) = 20 /\ pk.fpr = d.fpr
    \/ /\ d.mode = KEYDB_SEARCH_MODE_FPR16
       /\ Len(pk.fpr) = 16
       /\ pk.fpr = SubSeq(d.fpr, 1, 16)
    \/ d.mode = KEYDB_SEARCH_MODE_LONG_KID /\ pk.keyid = d.kid
    \/ d.mode = KEYDB_SEARCH_MODE_SHORT_KID /\ pk.keyid[2] = d.kid[2]

SomePacketMatches(keyblock, desc) ==
    \E i \in 1..Len(keyblock) : \E n \in 1..Len(desc) :
        IsPublicPkt(keyblock[i]) /\ ClaimedMatch(desc[n], keyblock[i].pk)

\* C1: a key block that contains a secret-key packet is rejected, whatever
\* descriptors were requested (none, or some that a public key matches).
C1_SecretKeyRejected ==
    (sc_pc = "ret" /\ HasSecretKey(sc_keyblock)) => sc_rc # 0

\* C1 witness: a rejected block with a secret key and a public key that
\* matches a requested descriptor.
C1_Witness ==
    /\ sc_pc = "ret"
    /\ HasSecretKey(sc_keyblock)
    /\ SomePacketMatches(sc_keyblock, sc_arg.desc)
    /\ sc_rc = GPG_ERR_GENERAL

\* The case the second claim is about: no secret key, a non-empty request
\* made of the four identifying modes only.
C2_Case ==
    /\ sc_pc = "ret"
    /\ ~HasSecretKey(sc_keyblock)
    /\ sc_arg.ndesc > 0
    /\ \A n \in 1..sc_arg.ndesc : sc_arg.desc[n].mode \in IdentifyingModes

\* C2: in that case the block is accepted iff some public key or subkey
\* packet matches some requested descriptor; otherwise it is rejected.
C2_AcceptIffMatch ==
    C2_Case =>
        /\ sc_rc \in {0, GPG_ERR_GENERAL}
        /\ (sc_rc = 0) <=> SomePacketMatches(sc_keyblock, sc_arg.desc)

\* C2 witness: accepted through a short key id only, the key's high 32
\* bits differing from those of every requested long key id.
C2_Witness ==
    /\ C2_Case
    /\ sc_rc = 0
    /\ \E n \in 1..sc_arg.ndesc :
          sc_arg.desc[n].mode = KEYDB_SEARCH_MODE_LONG_KID
    /\ \A i \in 1..Len(sc_keyblock) : \A n \in 1..sc_arg.ndesc :
          (IsPublicPkt(sc_keyblock[i])
             /\ ClaimedMatch(sc_arg.desc[n], sc_keyblock[i].pk))
          => sc_arg.desc[n].mode = KEYDB_SEARCH_MODE_SHORT_KID

-----------------------------------------------------------------------------
(* Claims about keyserver_get and keyserver_get_chunk (SpecGet). *)

NChunks == Len(g_chunks)

\* The indexes (1-based, into the caller's array) chunk k considered.
ChunkRange(k) ==
    (g_chunks[k].off + 1)..(g_chunks[k].off + g_chunks[k].ndesc_used)

RECURSIVE SumUsed(_)
SumUsed(k) == IF k = 0 THEN 0 ELSE SumUsed(k - 1) + g_chunks[k].ndesc_used

NoChunkFailed == \A k \in 1..NChunks : g_chunks[k].err = 0

\* C3: when no batch fails, the consumed counts of the successive chunks
\* sum to the input length, and every input descriptor lies in the range
\* of exactly one chunk; successive chunks are adjacent.
C3_ConsumedSumsToLength ==
    /\ \A k \in 1..(NChunks - 1) :
          g_chunks[k + 1].off = g_chunks[k].off + g_chunks[k].ndesc_used
    /\ (g_pc = "done" /\ NoChunkFailed) =>
          /\ SumUsed(NChunks) = Len(g_desc)
          /\ \A i \in 1..Len(g_desc) :
                Cardinality({k \in 1..NChunks : i \in ChunkRange(k)}) = 1

\* C3 witness: a call that ended without error after more than one chunk,
\* one of them consuming a None descriptor.
C3_Witness ==
    /\ g_pc = "done"
    /\ NoChunkFailed
    /\ NChunks >= 2
    /\ \E i \in 1..Len(g_desc) : g_desc[i].mode = KEYDB_SEARCH_MODE_NONE

\* The running length of a chunk as the sum over what it consumed.
RECURSIVE RangeCost(_, _)
RangeCost(lo, hi) ==
    IF lo > hi THEN 0
    ELSE (IF g_desc[hi].mode = KEYDB_SEARCH_MODE_NONE THEN 0
          ELSE PatternCost(g_desc[hi])) + RangeCost(lo, hi - 1)

\* C4: a chunk that holds two or more patterns has a running length
\* (17 plus the cost of each of its patterns) of at most 950.
C4_MultiPatternWithinLimit ==
    \A k \in 1..NChunks :
        Len(g_chunks[k].pattern) >= 2 =>
            /\ g_chunks[k].linelen <= MAX_KS_GET_LINELEN
            /\ g_chunks[k].linelen =
                  KS_GET_BASELEN
                  + RangeCost(g_chunks[k].off + 1,
                              g_chunks[k].off + g_chunks[k].ndesc_used)

\* C4 witness: a chunk of two patterns closed by the limit, descriptors
\* being left for the next chunk.
C4_Witness ==
    \E k \in 1..NChunks :
        /\ Len(g_chunks[k].pattern) >= 2
        /\ g_chunks[k].off + g_chunks[k].ndesc_used < Len(g_desc)
        /\ g_chunks[k].sent

Oversized(d) ==
    d.mode # KEYDB_SEARCH_MODE_NONE /\ PatternCost(d) > MAX_KS_GET_LINELEN

\* C5: a descriptor whose own cost is over the limit is consumed by the
\* chunk that starts at it, and the chunk that consumes it sends its
\* pattern and no other.
C5_OversizedAlone ==
    \A k \in 1..NChunks :
        g_chunks[k].sent =>
            /\ Oversized(g_desc[g_chunks[k].off + 1]) =>
                  g_chunks[k].ndesc_used >= 1
            /\ \A i \in ChunkRange(k) :
                  Oversized(g_desc[i]) =>
                      g_chunks[k].pattern = <<"=" \o g_desc[i].name>>

\* C5 witness: an oversized descriptor that did not come first was sent
\* alone, after the chunk before it was closed.
C5_Witness ==
    \E k \in 2..NChunks :
        /\ g_chunks[k].sent
        /\ Oversized(g_desc[g_chunks[k].off + 1])
        /\ Len(g_chunks[k].pattern) = 1
        /\ Len(g_chunks[k - 1].pattern) >= 1
        /\ g_chunks[k].off + g_chunks[k].ndesc_used < Len(g_desc)

\* C6: a chunk that failed is the last one: keyserver_get has returned,
\* with that chunk's error, and what lies behind the chunk was never sent.
C6_StopsAtFirstFailure ==
    \A k \in 1..NChunks :
        g_chunks[k].err # 0 =>
            /\ k = NChunks
            /\ g_pc = "done"
            /\ g_ret = g_chunks[k].err

\* C6 witness: the second chunk's request failed while descriptors were
\* left.
C6_Witness ==
    /\ g_pc = "done"
    /\ NChunks = 2
    /\ g_chunks[2].sent
    /\ g_chunks[2].err = GPG_ERR_NOT_FOUND
    /\ g_ret = GPG_ERR_NOT_FOUND
    /\ g_chunks[2].off + g_chunks[2].ndesc_used < Len(g_desc)

\* C7: the import statistics are printed iff some chunk succeeded.
C7_StatsIffAnyGood ==
    /\ g_pc # "done" => ~g_stats
    /\ g_pc = "done" => (g_stats <=> \E k \in 1..NChunks : g_chunks[k].err = 0)

\* C7 witness: an error is returned and the statistics of the earlier,
\* successful chunk were printed.
C7_Witness ==
    /\ g_pc = "done"
    /\ g_ret # 0
    /\ g_chunks[1].err = 0
    /\ g_stats

-----------------------------------------------------------------------------
(* Claims about search_line_handler (SpecSearch). *)

\* The first data line of the response is l.
FirstLineIs(l) ==
    Len(s_fed) >= 1 /\ s_fed[1] # 0 /\ SearchLines[s_fed[1]] = l

\* Records printed so far by print_keyrec.
Printed == {i \in 1..Len(s_out) : s_out[i][1] = "rec"}

InfoVersion2 ==
    <<"i", "n", "f", "o", ":", "2", ":", "5", ":">>

(* C8: when the first line of a search response is an info line whose     *)
(* protocol version is not 1, search_line_handler returns                 *)
(* GPG_ERR_UNSUPPORTED_PROTOCOL (and with it the search), no record is    *)
(* parsed or stored (nkeys stays 0, the descriptor array is never         *)
(* allocated, parse_keyrec's work is untouched, nothing is printed as a   *)
(* record), and count, validcount and not_found keep the values of the    *)
(* memset: the line sets none of them.                                    *)
C8_BadVersionFails ==
    FirstLineIs(InfoVersion2)
    => /\ s_pc = "done"
       /\ s_err = GPG_ERR_UNSUPPORTED_PROTOCOL
       /\ Len(s_fed) = 1
       /\ s_parm = ZeroParm
       /\ st_work = NullRec
       /\ Printed = {}

C8_Witness ==
    /\ FirstLineIs(InfoVersion2)
    /\ s_pc = "done"
    /\ s_err = GPG_ERR_UNSUPPORTED_PROTOCOL

InfoCount0 ==
    <<"i", "n", "f", "o", ":", "1", ":", "0", ":">>

(* C9: if the info line declares a key count of 0, the session is marked  *)
(* not-found and keeps zero records, even if pub lines follow the info    *)
(* line; in particular not_found and a positive nkeys never hold          *)
(* together.  The code does not have this property: after "info:1:0:" it  *)
(* goes on parsing, and a pub line completed by the next pub line or by   *)
(* the EOF is stored and counted while not_found stays set.               *)
C9_ZeroCountMeansNoRecords ==
    /\ FirstLineIs(InfoCount0)
       => (s_parm.not_found # 0 /\ s_parm.nkeys = 0)
    /\ ~(s_parm.not_found # 0 /\ s_parm.nkeys > 0)

-----------------------------------------------------------------------------
(* Claims about parse_keyrec (SpecParse). *)

RoundTripPub ==
    <<"p", "u", "b", ":", "1", "2", "3", "4", "5", "6", "7", "8", "1",
      "2", "3", "4", "5", "6", "7", "8", ":", "1", ":", "2", "0", "4", "8",
      ":", "1", "0", "0", "0", "0", "0", "0", "0", "0", "0", ":", "0", ":">>

RoundTripUid ==
    <<"u", "i", "d", ":", "%", "4", "1", "%", "4", "2", ":">>

\* A fresh parser was fed the pub line, the uid line and the NULL.
RoundTripFed ==
    /\ Len(p_fed) >= 3
    /\ p_fed[1] # 0 /\ ParseLines[p_fed[1]] = RoundTripPub
    /\ p_fed[2] # 0 /\ ParseLines[p_fed[2]] = RoundTripUid
    /\ p_fed[3] = 0

(* C10: a fresh parser fed "pub:1234567812345678:1:2048:1000000000:0:",   *)
(* then "uid:%41%42:", then the NULL of the end of the stream, returns    *)
(* nothing for the two lines and exactly one record for the NULL: long    *)
(* key id 0x12345678 0x12345678, type 1, size 2048, createtime            *)
(* 1000000000, expiretime 0 (absent), flags 0, and in uidbuf the decoded  *)
(* uid "AB" with the line continuation after it, two display lines.      *)
C10_RoundTrip ==
    RoundTripFed
    => /\ p_rets[1].ptr = "null"
       /\ p_rets[2].ptr = "null"
       /\ p_rets[3] =
             [ptr |-> "valid",
              rec |-> [desc |-> DescLong(305419896, 305419896),
                       type |-> 1, size |-> 2048,
                       createtime |-> 1000000000, expiretime |-> 0,
                       flags |-> 0,
                       uidbuf |-> <<"A", "B", "\n", "\t">>,
                       lines |-> 2]]
       /\ (Len(p_fed) = 3 => st_work = NullRec)

C10_Witness ==
    /\ RoundTripFed
    /\ Len(p_fed) = 3
    /\ p_rets[3].ptr = "valid"
    /\ p_rets[3].rec.uidbuf = <<"A", "B", "\n", "\t">>

\* The tag of a line: its first field.
LineTag(l) == Fields(l, {":"})[1]

\* ParseLines[id] is a pub line, a uid line.
IsPubId(id) ==
    id # 0 /\ ascii_strcasecmp(<<"p", "u", "b">>, LineTag(ParseLines[id])) = 0
IsUidId(id) ==
    id # 0 /\ ascii_strcasecmp(<<"u", "i", "d">>, LineTag(ParseLines[id])) = 0

DeadPubLine ==
    <<"p", "u", "b", ":", "n", "o", "t", "-", "a", "-", "k", "e", "y",
      ":">>

\* The last pub line fed has a token that is no key id, and only lines
\* other than pub lines were fed after it.
InDeadBlock ==
    \E k \in 1..Len(p_fed) :
       /\ p_fed[k] # 0
       /\ ParseLines[p_fed[k]] = DeadPubLine
       /\ \A j \in (k + 1)..Len(p_fed) : p_fed[j] # 0 /\ ~IsPubId(p_fed[j])

(* C11: after a pub line whose token does not classify to one of the four *)
(* identifying modes, no call returns a record for it, neither the next   *)
(* pub line nor the NULL of the end of the stream, and a uid line that    *)
(* follows it leaves the parser as it was.  The code does not have this   *)
(* property once work dangles (C13): the mode of the dead record is then  *)
(* read from freed storage.                                               *)
C11_DeadPubYieldsNothing ==
    [][InDeadBlock
       => /\ p_rets'[Len(p_rets')].ptr = "null"
          /\ IsUidId(p_fed'[Len(p_fed')]) => st_work' = st_work]_vars

(* C13: the call for the end of the stream returns nothing when no record *)
(* is in progress or when the record in progress is dead (mode NONE), and *)
(* the record in progress otherwise; after it the parser holds no record  *)
(* (work is NULL), so a further such call returns nothing and the next    *)
(* line starts a fresh record.  The code does not have this property: for *)
(* a dead record it calls xfree (work) and leaves work pointing to the    *)
(* freed storage.                                                         *)
C13_FlushClearsParser ==
    [][p_fed'[Len(p_fed')] = 0
       => /\ p_rets'[Len(p_rets')] =
                (IF \/ st_work.ptr = "null"
                    \/ st_work.rec.desc.mode = KEYDB_SEARCH_MODE_NONE
                 THEN NullRec ELSE st_work)
          /\ st_work' = NullRec]_vars

(* C12: in every state of a search, every descriptor in the array         *)
(* parm->desc and every record printed (and with it offered for           *)
(* selection) has one of the four identifying modes.  The code does not   *)
(* have this property in a search that follows one whose last record was  *)
(* dead: work then dangles (C13), and the record the first pub line       *)
(* returns has whatever mode the freed storage holds.                     *)
C12_OnlyIdentifyingSurface ==
    /\ \A i \in 1..Len(s_parm.desc.v) :
          s_parm.desc.v[i].mode \in IdentifyingModes
    /\ \A i \in Printed : s_out[i][3].desc.mode \in IdentifyingModes

ShortPub ==
    <<"p", "u", "b", ":", "0", "B", "A", "D", "F", "0", "0", "D">>

\* The descriptor of the pub line SearchLines[id] when its token is a key
\* id, as a sequence of one descriptor; the empty sequence otherwise.
IdentOf(id) ==
    IF id = 0 THEN <<>>
    ELSE IF SearchLines[id] = RoundTripPub
    THEN <<DescLong(305419896, 305419896)>>
    ELSE IF SearchLines[id] = ShortPub THEN <<DescShort(195948557)>>
    ELSE <<>>

\* The identifying descriptors of the pub lines among fed[1..n], in the
\* order of arrival.
RECURSIVE PubDescs(_, _)
PubDescs(fed, n) ==
    IF n = 0 THEN <<>> ELSE PubDescs(fed, n - 1) \o IdentOf(fed[n])

EofFed == Len(s_fed) > 0 /\ s_fed[Len(s_fed)] = 0

IsPubLineId(id) ==
    id # 0 /\ ascii_strcasecmp(<<"p", "u", "b">>, LineTag(SearchLines[id])) = 0

\* The records that the lines fed so far leave in progress: 1 when the
\* last pub line has a key id and no EOF came after it, 0 otherwise.
RECURSIVE InProgress(_, _)
InProgress(fed, n) ==
    IF n = 0 \/ fed[n] = 0 THEN 0
    ELSE IF IsPubLineId(fed[n]) THEN Len(IdentOf(fed[n]))
    ELSE InProgress(fed, n - 1)

\* The events of s_out that are printed records, in order.
RECURSIVE RecEvents(_, _)
RecEvents(out, n) ==
    IF n = 0 THEN <<>>
    ELSE RecEvents(out, n - 1)
         \o (IF out[n][1] = "rec" THEN <<out[n]>> ELSE <<>>)

(* C14: the array desc[0..nkeys-1] holds the identifying descriptors of   *)
(* the pub lines received in this response, in the order of arrival; a    *)
(* record is complete when the next pub line or the EOF arrives, so       *)
(* between two lines all but the last are counted and after the EOF all   *)
(* are; the k-th record is printed with the number k.  The code does not  *)
(* have this property in a search that follows one that ended with a      *)
(* record in progress (C20): the first pub line then completes the record *)
(* of the search before.                                                  *)
C14_RecordsInArrivalOrder ==
    LET pubs == PubDescs(s_fed, Len(s_fed))
        recs == RecEvents(s_out, Len(s_out))
    IN  /\ s_parm.nkeys <= Len(pubs)
        /\ \A i \in 1..s_parm.nkeys : s_parm.desc.v[i] = pubs[i]
        /\ s_pc = "recv"
           => s_parm.nkeys = Len(pubs) - InProgress(s_fed, Len(s_fed))
        /\ s_pc = "done" /\ s_err = 0 /\ EofFed => s_parm.nkeys = Len(pubs)
        /\ \A k \in 1..Len(recs) :
              recs[k][2] = k /\ recs[k][3].desc = pubs[k]

(***************************************************************************)
(* Claims about show_prompt called on its own (SpecPrompt).               *)
(***************************************************************************)
\* An answer that is a quit: it begins with q, Q or control-d.
QuitAnswer(answer) == answer # <<>> /\ answer[1] \in {"q", "Q", "EOT"}

\* A step of show_prompt that reads one answer, and that answer.
ReadStep == pr_pc = "read" /\ Len(pr_in') = Len(pr_in) + 1
LastRead == pr_in[Len(pr_in)]
\* keyserver_get was called in the step, on the descriptors sel.
GetCalledWith(sel) ==
    /\ Len(pr_out') = Len(pr_out) + 1
    /\ pr_out'[Len(pr_out')][1] = "get"
    /\ pr_out'[Len(pr_out')][2] = sel
NoGetCalled == \A i \in (Len(pr_out) + 1)..Len(pr_out') : pr_out'[i][1] # "get"

\* The tokens of an answer that atoi reads as a number in [1, numdesc], as
\* numbers, in the order of the answer.
ValidTokens(answer, numdesc) ==
    LET IsValid(tok) == atoi(tok) >= 1 /\ atoi(tok) <= numdesc
        toks == SelectSeq(Fields(answer, {" ", ","}), IsValid)
    IN  [i \in 1..Len(toks) |-> atoi(toks[i])]

\* C15: for every answer that is not a quit, show_prompt selects exactly
\* the tokens that are numbers in [1, numdesc], in the order of the answer
\* and wherever they stand in it, and does not prompt again when one token
\* survives (stated where the selection fits numarray and selarray can be
\* allocated).
C15_SelectsValidTokensAnywhere ==
    [][ReadStep =>
          LET rd == pr_in'[Len(pr_in')]
              sel == ValidTokens(rd.answer, pr_arg.numdesc)
          IN  (/\ ~QuitAnswer(rd.answer)
               /\ rd.alloc_ok
               /\ Len(sel) >= 1
               /\ Len(sel) <= DIM_numarray)
              => /\ pr_pc' = "ret"
                 /\ GetCalledWith([i \in 1..Len(sel) |-> pr_arg.desc[sel[i]]])]_vars

\* C16 as stated: an answer that is not a quit and in which no token
\* survives makes show_prompt prompt again and read another answer.
C16_NoSurvivorPromptsAgain ==
    [][ReadStep =>
          LET rd == pr_in'[Len(pr_in')]
          IN  (~QuitAnswer(rd.answer) /\ ValidTokens(rd.answer, pr_arg.numdesc) = <<>>)
              => pr_pc' = "read"]_vars

\* C16, amended: an answer that is not a quit and in which no token
\* survives makes show_prompt return 0 to its caller, the answer N)ext of
\* the prompt: it calls no keyserver_get, prints nothing and does not
\* prompt again.
C16_NoSurvivorReturnsZero ==
    [][ReadStep =>
          LET rd == pr_in'[Len(pr_in')]
          IN  (~QuitAnswer(rd.answer) /\ ValidTokens(rd.answer, pr_arg.numdesc) = <<>>)
              => /\ pr_pc' = "ret"
                 /\ pr_err' = 0
                 /\ pr_out' = pr_out]_vars

C16_Witness ==
    /\ pr_pc = "ret"
    /\ Len(pr_in) = 1
    /\ LastRead.answer \in {<<"n">>, <<>>, <<"9", "9">>}
    /\ pr_arg.numdesc >= 1
    /\ pr_err = 0

(***************************************************************************)
(* Claims about the prompts of a search (SpecSearch).                     *)
(***************************************************************************)
\* A step in which the show_prompt called by search_line_handler reads one
\* answer.
AnswerStep == s_pc = "prompt" /\ Len(s_in') = Len(s_in) + 1

\* C17: an answer that begins with q or Q, or with control-d, makes
\* show_prompt return Canceled without a call of keyserver_get, and the
\* search ends with Canceled: search_line_handler returns it, and after
\* the answer no record is printed and no prompt is shown.
C17_QuitCancelsSearch ==
    [][(AnswerStep /\ QuitAnswer(s_in'[Len(s_in')]))
          => /\ s_pc' = "done"
             /\ s_err' = GPG_ERR_CANCELED
             /\ SubSeq(s_out', 1, Len(s_out)) = s_out
             /\ \A i \in (Len(s_out) + 1)..Len(s_out') :
                   s_out'[i][1] \notin {"rec", "keys", "get"}
             /\ s_parm'.nkeys = s_parm.nkeys]_vars

C17_Witness ==
    /\ s_pc = "done"
    /\ s_err = GPG_ERR_CANCELED
    /\ Len(s_in) = 2
    /\ s_in[1] = <<"n">>
    /\ s_in[2] \in {<<"Q">>, <<"EOT">>}
    /\ Printed # {}

\* C18: one answer selects at most 50 records: an answer with more than
\* 50 valid tokens gets the warning and a new prompt, and no call of
\* keyserver_get; an answer with exactly 50 valid tokens is accepted (when
\* selarray can be allocated): keyserver_get is called on its 50 records.
C18_AtMostFiftySelected ==
    [][ReadStep =>
          LET rd == pr_in'[Len(pr_in')]
              sel == ValidTokens(rd.answer, pr_arg.numdesc)
          IN  ~QuitAnswer(rd.answer)
              => /\ Len(sel) > DIM_numarray
                    => /\ pr_pc' = "read"
                       /\ pr_out' = Append(pr_out, <<"too many">>)
                 /\ (Len(sel) = DIM_numarray /\ rd.alloc_ok)
                    => /\ pr_pc' = "ret"
                       /\ GetCalledWith([i \in 1..Len(sel) |->
                                            pr_arg.desc[sel[i]]])]_vars

\* The selection show_prompt makes of an answer: the valid tokens of an
\* answer that is not a quit and whose leading number is in [1, numdesc].
Selection(answer, numdesc) ==
    IF ~QuitAnswer(answer) /\ atoi(answer) >= 1 /\ atoi(answer) <= numdesc
    THEN ValidTokens(answer, numdesc)
    ELSE <<>>
ValidSelection(sel) == Len(sel) >= 1 /\ Len(sel) <= DIM_numarray

Headers == {i \in 1..Len(s_out) : s_out[i][1] = "keys"}
\* The first pub line of this search has just been handled.
AtFirstPubLine ==
    /\ s_fed # <<>>
    /\ IsPubLineId(s_fed[Len(s_fed)])
    /\ \A i \in 1..(Len(s_fed) - 1) : ~IsPubLineId(s_fed[i])

\* C20: nothing persists from one search to the next: however the search
\* before ended, the first pub line of a search emits no record, and the
\* range shown by the first prompt of a search starts at record 1.
C20_NothingPersistsAcrossSearches ==
    /\ AtFirstPubLine => s_parm.nkeys = 0 /\ Printed = {}
    /\ \A i \in Headers : (\A j \in Headers : i <= j) => s_out[i][2] = 1

(***************************************************************************)
(* Claims about the lines of one response (SpecSearch).                   *)
(***************************************************************************)
\* A step in which search_line_handler is called for a data line or for
\* the EOF, and the line it is called for.
DataStep == s_pc = "recv" /\ Len(s_fed') = Len(s_fed) + 1
IsInfoLineId(id) ==
    id # 0 /\ ascii_strcasecmp(<<"i", "n", "f", "o">>, LineTag(SearchLines[id])) = 0

\* C21: an info line is recognised only as the first line of the
\* response: one that arrives after any other line, also after the pub or
\* uid lines of a record that is not completed yet, changes neither the
\* count nor validcount nor not_found and does not fail the search with
\* GPG_ERR_UNSUPPORTED_PROTOCOL.
C21_InfoOnlyAsFirstLine ==
    [][(DataStep /\ s_fed # <<>> /\ IsInfoLineId(s_fed'[Len(s_fed')]))
          => /\ s_parm'.count = s_parm.count
             /\ s_parm'.validcount = s_parm.validcount
             /\ s_parm'.not_found = s_parm.not_found
             /\ s_err' # GPG_ERR_UNSUPPORTED_PROTOCOL]_vars

InfoCountNeg == <<"i", "n", "f", "o", ":", "1", ":", "-", "3", ":">>
InfoCountPos == <<"i", "n", "f", "o", ":", "1", ":", "1", ":">>
\* The first line of the response has been handled and no other yet.
AfterFirstLine(l) == Len(s_fed) = 1 /\ FirstLineIs(l)

\* C22: a version 1 info line read as the first line: a count of 0 marks
\* the search not found, a negative count is replaced by 10 and is not
\* trusted, a positive count is kept and trusted.
C22_InfoCountCases ==
    /\ AfterFirstLine(InfoCount0)
       => s_parm.not_found = 1 /\ s_parm.count = 0 /\ s_parm.validcount = 0
    /\ AfterFirstLine(InfoCountNeg)
       => s_parm.count = 10 /\ s_parm.validcount = 0 /\ s_parm.not_found = 0
    /\ AfterFirstLine(InfoCountPos)
       => s_parm.count = 1 /\ s_parm.validcount = 1 /\ s_parm.not_found = 0

C22_Witness ==
    /\ AfterFirstLine(InfoCountNeg)
    /\ s_pc = "recv"
    /\ s_parm.count = 10
    /\ s_parm.any_lines = 1

\* The descriptor of the record that the lines fed[1..n] leave in
\* progress, as a sequence of one descriptor.
RECURSIVE PendingDesc(_, _)
PendingDesc(fed, n) ==
    IF n = 0 \/ fed[n] = 0 THEN <<>>
    ELSE IF IsPubLineId(fed[n]) THEN IdentOf(fed[n])
    ELSE PendingDesc(fed, n - 1)

\* A step in which a completed record arrives: a record is in progress
\* and the handler is called for the next pub line or for the EOF.
RecordCompletes ==
    /\ DataStep
    /\ PendingDesc(s_fed, Len(s_fed)) # <<>>
    /\ s_fed'[Len(s_fed')] = 0 \/ IsPubLineId(s_fed'[Len(s_fed')])

\* The record is stored behind the nkeys records found so far.
RecordStored ==
    /\ Len(s_parm'.desc.v) = s_parm.nkeys + 1
    /\ <<s_parm'.desc.v[s_parm.nkeys + 1]>> = PendingDesc(s_fed, Len(s_fed))
    /\ SubSeq(s_parm'.desc.v, 1, s_parm.nkeys)
          = SubSeq(s_parm.desc.v, 1, s_parm.nkeys)

\* The capacity grows by 10 and the count is no longer trusted when the
\* array is full, and both stay as they are when it is not; after the
\* EOF the count is no longer trusted either when it differs from the
\* number of records (l.591).
RoomMade ==
    IF s_parm.nkeys = s_parm.count
    THEN s_parm'.count = s_parm.count + 10 /\ s_parm'.validcount = 0
    ELSE /\ s_parm'.count = s_parm.count
         /\ \/ s_parm'.validcount = s_parm.validcount
            \/ /\ s_fed'[Len(s_fed')] = 0
               /\ s_parm'.nkeys # s_parm'.count
               /\ s_parm'.validcount = 0

\* C23 as stated: when a completed record arrives and the array is full
\* the capacity grows by exactly 10, validcount is cleared and the record
\* is appended; when the array is not full the record is appended and
\* capacity and validcount stay.
C23_RecordAppendedWithRoom == [][RecordCompletes => RoomMade /\ RecordStored]_vars

\* C23, amended: the same, unless the array cannot be allocated or
\* enlarged: then the record is dropped and the search ends with the
\* error of the allocation.
C23_RecordAppendedOrNoMemory ==
    [][RecordCompletes
          => \/ RoomMade /\ RecordStored
             \/ /\ s_pc' = "done"
                /\ s_err' = GPG_ERR_ENOMEM
                /\ s_parm'.nkeys = s_parm.nkeys]_vars

C23_Witness ==
    /\ s_parm.count = 11
    /\ s_parm.validcount = 0
    /\ s_parm.nkeys = 2
    /\ s_parm.desc.v = <<DescLong(305419896, 305419896), DescShort(195948557)>>
    /\ FirstLineIs(InfoCountPos)

\* The records printed in the output out, and the lines of the last one.
RecCount(out) == Cardinality({i \in 1..Len(out) : out[i][1] = "rec"})
LastRec(out) ==
    out[CHOOSE i \in 1..Len(out) :
            out[i][1] = "rec" /\ \A j \in (i + 1)..Len(out) : out[j][1] # "rec"]
PageLimit == st_opt.screen_lines - 1

\* The step prints exactly one record, the one with the number nkeys + 1,
\* and counts it and its lines on top of the counter from.
RendersFrom(from) ==
    /\ RecCount(s_out') = RecCount(s_out) + 1
    /\ LastRec(s_out')[2] = s_parm.nkeys + 1
    /\ s_parm'.nkeys = s_parm.nkeys + 1
    /\ s_parm'.numlines = from + LastRec(s_out')[3].lines

\* A completed record arrives in interactive mode and can be stored.
RecordToRender ==
    /\ RecordCompletes
    /\ ~st_opt.with_colons
    /\ ~(s_pc' = "done" /\ s_err' = GPG_ERR_ENOMEM)

\* The handler waits at the prompt of a full page.
AtPagePrompt(pc, site) == pc = "prompt" /\ site = "page"

(* C24: in interactive mode, before a completed record is printed: when   *)
(* the counter of printed lines plus the lines of the record exceeds      *)
(* screen_lines - 1, show_prompt is called first, on the records printed  *)
(* so far and not on the pending one, and the counter is set to 0 before  *)
(* the record is printed.  So after each printed record the counter is at *)
(* most screen_lines - 1, unless that record alone has more lines.        *)
C24_PromptBeforeFullPage ==
    [][/\ RecordToRender
          => IF s_parm.numlines + s_keyrec'.rec.lines > PageLimit
                /\ AtPagePrompt(s_pc', s_site')
             THEN /\ RecCount(s_out') = RecCount(s_out)
                  /\ s_parm'.nkeys = s_parm.nkeys
                  /\ s_parm'.nkeys = RecCount(s_out')
             ELSE /\ ~AtPagePrompt(s_pc', s_site')
                  /\ RendersFrom(s_parm.numlines)
                  /\ s_parm'.numlines <= PageLimit
       /\ (AnswerStep /\ AtPagePrompt(s_pc, s_site))
          => /\ \A i \in (Len(s_out) + 1)..Len(s_out') :
                   s_out'[i][1] = "get"
                   => /\ s_parm.nkeys > 0
                      /\ \A k \in 1..Len(s_out'[i][2]) :
                            \E n \in 1..s_parm.nkeys :
                               s_out'[i][2][k] = s_parm.desc.v[n]
             /\ s_err' = 0 /\ s_pc' # "done" => RendersFrom(0)
             /\ s_err' # 0 => RecCount(s_out') = RecCount(s_out)
       /\ (~st_opt.with_colons /\ RecCount(s_out') > 0)
          => \/ s_parm'.numlines <= PageLimit
             \/ LastRec(s_out')[3].lines > PageLimit]_vars

C24_Witness ==
    /\ st_opt.screen_lines = 2
    /\ ~st_opt.with_colons
    /\ s_pc = "recv"
    /\ s_in = <<<<"n">>>>
    /\ RecCount(s_out) = 2
    /\ s_parm.nkeys = 2
    /\ s_parm.numlines = LastRec(s_out)[3].lines

\* The handler is called for the EOF.
EofStep == DataStep /\ s_fed'[Len(s_fed')] = 0
\* The "Keys from-numdesc of count" headers that the step prints show the
\* numdesc records found.
HeadersShow(numdesc) ==
    \A i \in (Len(s_out) + 1)..Len(s_out') :
       s_out'[i][1] = "keys" => s_out'[i][3] = numdesc

\* The end of the stream once total records are stored: not found
\* without a record, no prompt with with_colons and batch, and the last
\* prompt on all records otherwise.
EndOfStream(total) ==
    /\ s_parm'.eof_seen = 1
    /\ s_parm'.nkeys = total
    /\ IF total = 0
       THEN s_parm'.not_found = 1 /\ s_pc' = "done" /\ s_err' = 0
       ELSE IF st_opt.with_colons /\ st_opt.batch
       THEN s_pc' = "done" /\ s_err' = 0
       ELSE /\ s_pc' = "prompt" /\ s_site' = "last"
            /\ Len(s_parm'.desc.v) = total
            /\ HeadersShow(total)

\* The flushed record waits for the prompt of a full page.
FlushedWaits ==
    /\ AtPagePrompt(s_pc', s_site')
    /\ s_parm'.eof_seen = 1
    /\ PendingDesc(s_fed, Len(s_fed)) # <<>>
    /\ <<s_parm'.desc.v[s_parm.nkeys + 1]>> = PendingDesc(s_fed, Len(s_fed))

\* What show_prompt returned in the step, seen from its answer and from
\* the call of keyserver_get it made.
PromptOutcome(err) ==
    IF QuitAnswer(s_in'[Len(s_in')]) THEN err = GPG_ERR_CANCELED
    ELSE IF Len(s_out') > Len(s_out) /\ s_out'[Len(s_out) + 1][1] = "get"
    THEN err = s_out'[Len(s_out) + 1][4]
    ELSE err \in {0, GPG_ERR_ENOMEM}

\* The steps after the EOF: the answer at the prompt of a full page lets
\* the flushed record be printed and the end of the stream follow, or
\* ends the search with the error of show_prompt; the answer at the last
\* prompt ends the search with what show_prompt returned.
AfterEofAnswers ==
    /\ (AnswerStep /\ AtPagePrompt(s_pc, s_site) /\ s_parm.eof_seen = 1)
          => IF s_pc' = "done" /\ s_err' # 0 THEN PromptOutcome(s_err')
             ELSE EndOfStream(s_parm.nkeys + 1)
    /\ (AnswerStep /\ s_pc = "prompt" /\ s_site = "last")
          => s_pc' = "done" /\ PromptOutcome(s_err')

C26_EmptyRequestAccepts ==
    (sc_pc = "ret" /\ sc_arg.ndesc = 0 /\ ~HasSecretKey(sc_keyblock))
       => sc_rc = 0

\* C26 witness: an accepted key block without any public key packet.
C26_Witness ==
    /\ sc_pc = "ret"
    /\ sc_arg.ndesc = 0
    /\ \A i \in 1..Len(sc_keyblock) : ~IsPublicPkt(sc_keyblock[i])
    /\ \E i \in 1..Len(sc_keyblock) : sc_keyblock[i].pkttype = PKT_SECRET_SUBKEY
    /\ sc_rc = 0

\* C27: a requested descriptor of a mode other than the four identifying
\* ones always accepts: with such a descriptor in the list, every key
\* block without a secret-key packet is accepted, whatever the other
\* descriptors and whatever the packets of the block.
C27_OtherModeAccepts ==
    (/\ sc_pc = "ret"
     /\ ~HasSecretKey(sc_keyblock)
     /\ \E n \in 1..sc_arg.ndesc : sc_arg.desc[n].mode \notin IdentifyingModes)
       => sc_rc = 0

(***************************************************************************)
(* More claims about keyserver_get and keyserver_get_chunk (SpecGet).     *)
(***************************************************************************)
\* Only None descriptors are left from index off + 1 (1-based) on.
OnlyNoneLeft(off) ==
    \A i \in (off + 1)..Len(g_desc) : g_desc[i].mode = KEYDB_SEARCH_MODE_NONE

\* C28: when the next batch is empty and no descriptor remains (only None
\* descriptors are left), keyserver_get stops with success: no request
\* goes to the transport for the empty batch and 0 is returned.  Stated
\* for the calls whose pattern array was allocated.
C28_EmptyBatchNotSent ==
    \A k \in 1..NChunks :
        (OnlyNoneLeft(g_chunks[k].off) /\ g_chunks[k].err # GPG_ERR_ENOMEM)
           => /\ ~g_chunks[k].sent
              /\ g_chunks[k].err = 0
              /\ g_pc = "done" /\ g_ret = 0

\* The cost of a descriptor as the claim has it and as the code has it.
ClaimedCost(d) ==
    CASE d.mode = KEYDB_SEARCH_MODE_FPR20 -> 42
      [] d.mode = KEYDB_SEARCH_MODE_FPR16 -> 34
      [] d.mode = KEYDB_SEARCH_MODE_LONG_KID -> 18
      [] d.mode = KEYDB_SEARCH_MODE_SHORT_KID -> 10
      [] d.mode = KEYDB_SEARCH_MODE_EXACT -> 1 + Len(d.name)
      [] d.mode = KEYDB_SEARCH_MODE_NONE -> 0
AmendedCost(d) ==
    CASE d.mode = KEYDB_SEARCH_MODE_FPR20 -> 43
      [] d.mode = KEYDB_SEARCH_MODE_FPR16 -> 43
      [] d.mode = KEYDB_SEARCH_MODE_LONG_KID -> 19
      [] d.mode = KEYDB_SEARCH_MODE_SHORT_KID -> 11
      [] d.mode = KEYDB_SEARCH_MODE_EXACT -> 2 + Len(d.name)
      [] d.mode = KEYDB_SEARCH_MODE_NONE -> 0

RECURSIVE ClaimedSum(_, _)
ClaimedSum(lo, hi) ==
    IF lo > hi THEN 0 ELSE ClaimedCost(g_desc[hi]) + ClaimedSum(lo, hi - 1)
RECURSIVE AmendedSum(_, _)
AmendedSum(lo, hi) ==
    IF lo > hi THEN 0 ELSE AmendedCost(g_desc[hi]) + AmendedSum(lo, hi - 1)

\* C29 as stated: the running length of a chunk is 17 plus, for each
\* descriptor it consumed, 42 for a 20-byte and 34 for a 16-byte
\* fingerprint, 18 for a long and 10 for a short key id, 1 + the length
\* of the name for an exact name and 0 for None.
C29_CostPerDescriptor ==
    \A k \in 1..NChunks :
        g_chunks[k].sent =>
            g_chunks[k].linelen =
                KS_GET_BASELEN
                + ClaimedSum(g_chunks[k].off + 1,
                             g_chunks[k].off + g_chunks[k].ndesc_used)

\* C29, amended: the cost per descriptor is 43 for a fingerprint of
\* either length, 19 for a long and 11 for a short key id, 2 + the length
\* of the name for an exact name and 0 for None.
C29_CostPerDescriptorOfCode ==
    \A k \in 1..NChunks :
        g_chunks[k].sent =>
            g_chunks[k].linelen =
                KS_GET_BASELEN
                + AmendedSum(g_chunks[k].off + 1,
                             g_chunks[k].off + g_chunks[k].ndesc_used)

C29_Witness ==
    /\ NChunks = 1
    /\ g_chunks[1].sent
    /\ Len(g_desc) = 3
    /\ g_desc[1].mode = KEYDB_SEARCH_MODE_FPR16
    /\ g_desc[2].mode = KEYDB_SEARCH_MODE_NONE
    /\ g_desc[3].mode = KEYDB_SEARCH_MODE_SHORT_KID
    /\ g_chunks[1].linelen = 71

(***************************************************************************)
(* Claims about keyserver_import (SpecImport).                             *)
(***************************************************************************)
\* A string that classifies as a key id or a fingerprint, and one that
\* does not.
ValidUser(u) ==
    LET c == classify_user_id(u)
    IN  c.err = 0 /\ c.desc.mode \in IdentifyingModes
InvalidUser(u) == ~ValidUser(u)
ValidUsers == SelectSeq(im_users, ValidUser)

\* C30: keyserver_import skips, with a diagnostic, every string that does
\* not classify or is neither a key id nor a fingerprint; it calls
\* keyserver_get exactly once, with the descriptors of the valid strings
\* in the order given, and not at all when no string is valid.
C30_ImportFetchesValidTokens ==
    im_pc \in {"get", "done"}
       => /\ im_log = SelectSeq(im_users, InvalidUser)
          /\ IF ValidUsers = <<>>
             THEN im_calls = 0 /\ g_pc = "idle" /\ g_chunks = <<>>
             ELSE /\ im_calls = 1
                  /\ g_pc # "idle"
                  /\ g_desc = [i \in 1..Len(ValidUsers) |->
                                  classify_user_id(ValidUsers[i]).desc]

C30_Witness ==
    /\ im_pc = "done"
    /\ im_users = <<<<"a", "l", "i", "c", "e">>, <<"0", "x", "1", "2", "3", "4", "5", "6", "7", "8", "1", "2", "3",
      "4", "5", "6", "7", "8">>>>
    /\ im_log = <<<<"a", "l", "i", "c", "e">>>>
    /\ im_calls = 1
    /\ g_desc = <<DescLong(305419896, 305419896)>>
    /\ NChunks = 1
    /\ g_chunks[1].sent

(***************************************************************************)
(* Termination of keyserver_get (SpecGetFair).                             *)
(***************************************************************************)
\* Every call of keyserver_get_chunk that did not fail consumed at least
\* one descriptor, and there were no more calls than descriptors.
ChunksProgress ==
    /\ \A k \in 1..NChunks :
          g_chunks[k].err = 0 => g_chunks[k].ndesc_used >= 1
    /\ NChunks <= Len(g_desc)

\* C31: keyserver_get terminates for every descriptor list: each chunk
\* that does not fail consumes at least one descriptor, at most ndesc
\* chunks are issued and the loop ends, also when a descriptor alone is
\* over the limit.
C31_GetTerminates == []ChunksProgress /\ <>(g_pc = "done")

C31_Witness ==
    /\ g_pc = "done"
    /\ Len(g_desc) = 3
    /\ NChunks = 3
    /\ \A i \in 1..3 : g_desc[i] = DescExact(Name950)
    /\ NoChunkFailed

\* C32: a chunk is closed because of the length limit only when it holds
\* a pattern already: no chunk without a pattern is sent while a
\* descriptor other than None remains.
C32_NoEmptyChunkBeforeTheEnd ==
    \A k \in 1..NChunks :
        (g_chunks[k].sent /\ g_chunks[k].pattern = <<>>)
           => OnlyNoneLeft(g_chunks[k].off)

\* The patterns of chunks 1..k one after the other.
RECURSIVE AllPatterns(_)
AllPatterns(k) ==
    IF k = 0 THEN <<>> ELSE AllPatterns(k - 1) \o g_chunks[k].pattern

\* The encoding the request must carry for a descriptor of the pool.
Encoding(d) ==
    CASE d = DescShort(305419896) -> "0x12345678"
      [] d = DescLong(715784193, 305419896) -> "0x2AAA000112345678"
      [] d = DescFpr20(FprA) ->
            "0x0102030405060708090A0B0C0D0E0F1011121314"
      [] d = DescFpr16(FprC) -> "0x0102030405060708090A0B0C0D0E0F10"
      [] d.mode = KEYDB_SEARCH_MODE_EXACT -> "=" \o d.name

NotNone(d) == d.mode # KEYDB_SEARCH_MODE_NONE
EncodingsOf(desc) ==
    LET some == SelectSeq(desc, NotNone)
    IN  [i \in 1..Len(some) |-> Encoding(some[i])]

\* C33: when no chunk fails, the pattern lists of the successive chunks
\* of a keyserver_get, one after the other, are the encodings of the
\* descriptors other than None, in input order and each once; a None
\* descriptor gives no pattern and counts as consumed.
C33_PatternsAreTheEncodings ==
    (g_pc = "done" /\ NoChunkFailed)
       => /\ AllPatterns(NChunks) = EncodingsOf(g_desc)
          /\ SumUsed(NChunks) = Len(g_desc)

C33_Witness ==
    /\ g_pc = "done"
    /\ NoChunkFailed
    /\ g_desc = <<DescNone, DescFpr16(FprC), DescExact(Name950)>>
    /\ NChunks = 2
    /\ g_chunks[1].ndesc_used = 2
    /\ AllPatterns(2) = <<"0x0102030405060708090A0B0C0D0E0F10", "=" \o Name950>>

(***************************************************************************)
(* More claims about parse_keyrec (SpecParse).                             *)
(***************************************************************************)
\* The pub lines that end before their last field, and the record each
\* one must leave in progress.
PrefixRec(desc, type, size, createtime) ==
    [desc |-> desc, type |-> type, size |-> size,
     createtime |-> createtime, expiretime |-> 0, flags |-> 0,
     uidbuf |-> <<>>, lines |-> 1]
PrefixPubs ==
    {<<<<"p", "u", "b", ":", "0", "B", "A", "D", "F", "0", "0", "D">>, PrefixRec(DescShort(195948557), 0, 0, 0)>>,
     <<<<"p", "u", "b", ":", "0", "B", "A", "D", "F", "0", "0", "D", ":",
      "1", ":", "2", "0", "4", "8">>,
       PrefixRec(DescShort(195948557), 1, 2048, 0)>>,
     <<<<"p", "u", "b", ":", "0", "x", "1", "2", "3", "4", "5", "6", "7",
      "8", "1", "2", "3", "4", "5", "6", "7", "8", ":", "1", "7", ":", "1",
      "0", "2", "4", ":", "1", "0", "0", "0", "0", "0", "0", "0", "0", "0">>,
       PrefixRec(DescLong(305419896, 305419896), 17, 1024, 1000000000)>>}

\* The line ParseLines[id] is one of them, and its record.
IsPrefixPubId(id) ==
    id # 0 /\ \E pp \in PrefixPubs : pp[1] = ParseLines[id]
PrefixRecOf(id) ==
    (CHOOSE pp \in PrefixPubs : pp[1] = ParseLines[id])[2]

LastFedId == p_fed[Len(p_fed)]

\* The step feeds a pub line that ends early: the record in progress is
\* the one the line describes.
PrefixPubKept ==
    IsPrefixPubId(p_fed'[Len(p_fed')])
       => st_work' = [ptr |-> "valid",
                      rec |-> PrefixRecOf(p_fed'[Len(p_fed')])]

\* The step feeds a pub line or the NULL directly after such a line: the
\* call returns the record of that line.
PrefixPubEmitted ==
    (/\ p_fed # <<>>
     /\ IsPrefixPubId(LastFedId)
     /\ (p_fed'[Len(p_fed')] = 0 \/ IsPubId(p_fed'[Len(p_fed')])))
       => p_rets'[Len(p_rets')] =
             [ptr |-> "valid", rec |-> PrefixRecOf(LastFedId)]

(* C34: a pub line that ends after any prefix of its optional fields      *)
(* still gives a record: the fields it has keep their values, the others  *)
(* are 0, and the record is returned by the next pub line or by the NULL  *)
(* of the end of the stream.  The code does not have this property once   *)
(* work dangles (C13): the line is then written into freed storage.       *)
C34_PrefixPubYieldsRecord == [][PrefixPubKept /\ PrefixPubEmitted]_vars

\* No record with a key id is in progress.
NoLiveRecord(w) ==
    w.ptr # "valid" \/ w.rec.desc.mode = KEYDB_SEARCH_MODE_NONE

\* The step feeds a line that is neither a pub line nor a uid line, or a
\* uid line while no record with a key id is in progress.
IgnoredLineStep ==
    LET id == p_fed'[Len(p_fed')]
    IN  /\ id # 0
        /\ ~IsPubId(id)
        /\ IsUidId(id) => NoLiveRecord(st_work)

\* The record in progress is as before; a parser without a record may
\* hold a new, empty one.
WorkUnchanged ==
    IF st_work.ptr = "null" THEN st_work' \in {NullRec, NewRec}
    ELSE st_work' = st_work

\* The step feeds the pub line written in upper case, or the uid line
\* written with a capital while a record with a key id is in progress:
\* the line is taken.
UpperPub == ParseLines[5]
CapitalUid == ParseLines[6]
AnyCaseTaken ==
    LET id == p_fed'[Len(p_fed')]
    IN  /\ (id # 0 /\ ParseLines[id] = UpperPub)
           => /\ st_work'.ptr = "valid"
              /\ st_work'.rec.desc = DescLong(305419896, 305419896)
        /\ (id # 0 /\ ParseLines[id] = CapitalUid /\ ~NoLiveRecord(st_work))
           => /\ st_work'.rec.lines = st_work.rec.lines + 1
              /\ st_work'.rec.desc = st_work.rec.desc

(* C35: a line whose tag is neither pub nor uid in any letter case, and a  *)
(* uid line fed while no record with a key id is in progress, leaves the   *)
(* record in progress as it was and returns nothing; pub and uid are       *)
(* recognised in any letter case.  The code does not have this property    *)
(* once work dangles (C13): a uid line then tests the mode in freed        *)
(* storage.                                                                *)
C35_OtherLinesIgnored ==
    [][/\ IgnoredLineStep
          => (p_rets'[Len(p_rets')].ptr = "null" /\ WorkUnchanged)
       /\ AnyCaseTaken]_vars

(***************************************************************************)
(* More claims about search_line_handler (SpecSearch).                     *)
(***************************************************************************)
\* C36: every keyrec parse_keyrec handed to search_line_handler has its
\* uidbuf closed and is freed before the handler returns, on every path:
\* after the record was stored, after a failed allocation, and after a
\* pagination prompt that returned Canceled or an error.
C36_KeyrecDiscardedOnReturn ==
    s_pc \in {"recv", "done"} => s_keyrec.ptr # "valid"

\* The array parm->desc is allocated: it holds no more records than its
\* capacity count, and no slot at or above count has been written.
WithinCapacity ==
    s_parm.desc.ptr = "valid"
       => /\ s_parm.nkeys <= s_parm.count
          /\ Len(s_parm.desc.v) <= s_parm.count

\* A step that handles an info line and changes count is taken before
\* the array is allocated.
InfoBeforeStorage ==
    (/\ DataStep
     /\ IsInfoLineId(s_fed'[Len(s_fed')])
     /\ s_parm'.count # s_parm.count)
       => s_parm.desc.ptr = "null"

\* C37: once parm->desc is allocated, nkeys never exceeds count and every
\* record is written at an index below count; an info line changes count
\* only before the array is allocated.
C37_StoredWithinCapacity == []WithinCapacity /\ [][InfoBeforeStorage]_vars

C37_Witness ==
    /\ s_pc = "done"
    /\ s_fed = <<3, 4, 7, 0>>
    /\ s_parm.desc.ptr = "valid"
    /\ s_parm.nkeys = 2
    /\ s_parm.count = 11
    /\ Len(s_parm.desc.v) = 2

\* The counts the info lines of the response carry.
DeclaredCounts ==
    {atoi(Fields(SearchLines[s_fed[k]], {":"})[3]) :
        k \in {j \in 1..Len(s_fed) : IsInfoLineId(s_fed[j])}}

\* validcount is set in a step: the step handles an info line with a
\* positive count, and no info line was handled before it.
FlagSetByInfoLine ==
    (s_parm'.validcount # 0 /\ s_parm.validcount = 0)
       => /\ DataStep
          /\ IsInfoLineId(s_fed'[Len(s_fed')])
          /\ atoi(Fields(SearchLines[s_fed'[Len(s_fed')]], {":"})[3]) > 0
          /\ s_parm.any_lines = 0
          /\ \A k \in 1..Len(s_fed) : ~IsInfoLineId(s_fed[k])

\* Every "Keys from-numdesc of count" header shows a count that an info
\* line declared and that is not below numdesc.
TotalsDeclared ==
    \A i \in Headers :
        /\ s_out[i][4] \in DeclaredCounts
        /\ s_out[i][4] > 0
        /\ s_out[i][4] >= s_out[i][3]

\* At the prompt of the end of the stream a trusted count is the number
\* of records, and so is the total of the header just printed.
LastTotalIsNumber ==
    (s_pc = "prompt" /\ s_site = "last" /\ s_parm.validcount # 0)
       => /\ s_parm.count = s_parm.nkeys
          /\ s_parm.nkeys = Len(s_parm.desc.v)
          /\ s_out # <<>>
          /\ s_out[Len(s_out)] =
                <<"keys", s_out[Len(s_out)][2], s_parm.nkeys, s_parm.nkeys>>

\* C38: validcount is set only by a positive count of the info line and,
\* once cleared, is not set again in the search; a total given to a
\* prompt is the count the server declared, is at least the number of
\* records offered at that prompt, and at the prompt of the end of the
\* stream equals the number of records received.
C38_TotalIsDeclaredCount ==
    /\ [][FlagSetByInfoLine]_vars
    /\ [](TotalsDeclared /\ LastTotalIsNumber)

C38_Witness ==
    /\ s_pc = "prompt"
    /\ s_site = "last"
    /\ s_fed = <<9, 4, 7, 0>>
    /\ s_parm.validcount = 1
    /\ s_parm.nkeys = 2
    /\ s_out[Len(s_out)] = <<"keys", 1, 2, 2>>

(***************************************************************************)
(* The screening of what a chunk returns (SpecGet).                        *)
(***************************************************************************)
\* The descriptors chunk k consumed, and the key block it screened.
OwnDescs(k) ==
    SubSeq(g_desc, g_chunks[k].off + 1,
           g_chunks[k].off + g_chunks[k].ndesc_used)
Screened(k) == g_chunks[k].screened.kb # <<>>

\* The key block holds a public key or subkey that the descriptor d
\* names by key id or fingerprint.
NamedBy(kb, d) ==
    \E i \in 1..Len(kb) :
       /\ kb[i].pkttype \in {PKT_PUBLIC_KEY, PKT_PUBLIC_SUBKEY}
       /\ \/ /\ d.mode = KEYDB_SEARCH_MODE_FPR20
             /\ Len(kb[i].pk.fpr) = 20
             /\ kb[i].pk.fpr = d.fpr
          \/ /\ d.mode = KEYDB_SEARCH_MODE_FPR16
             /\ Len(kb[i].pk.fpr) = 16
             /\ kb[i].pk.fpr = SubSeq(d.fpr, 1, 16)
          \/ /\ d.mode = KEYDB_SEARCH_MODE_LONG_KID
             /\ kb[i].pk.keyid = d.kid
          \/ /\ d.mode = KEYDB_SEARCH_MODE_SHORT_KID
             /\ kb[i].pk.keyid[2] = d.kid[2]

\* Chunk k consumed only key ids and fingerprints, none of which names a
\* key of the key block.
NamedByNoneOf(kb, own) ==
    \A j \in 1..Len(own) :
       own[j].mode \in IdentifyingModes /\ ~NamedBy(kb, own[j])

\* C39: the key block a chunk returns is screened against the descriptors
\* that chunk consumed (None descriptors among them) and no others: a key
\* named only by a descriptor of another chunk is rejected, and a None
\* descriptor among the consumed ones accepts every key block with a
\* public key packet and without a secret-key packet.
C39_ScreenedAgainstOwnChunk ==
    \A k \in 1..NChunks :
        Screened(k) =>
           LET kb == g_chunks[k].screened.kb
               rc == g_chunks[k].screened.rc
               own == OwnDescs(k)
           IN  /\ g_chunks[k].screen_ndesc = Len(own)
               /\ NamedByNoneOf(kb, own) => rc # 0
               /\ (/\ \E j \in 1..Len(own) :
                         own[j].mode = KEYDB_SEARCH_MODE_NONE
                   /\ \E i \in 1..Len(kb) : kb[i].pkttype = PKT_PUBLIC_KEY
                   /\ \A i \in 1..Len(kb) : kb[i].pkttype # PKT_SECRET_KEY)
                  => rc = 0

\* The first chunk rejected a key that only the descriptor of the third
\* chunk names.
C39_Witness ==
    /\ g_desc = <<DescShort(305419896), DescExact(Name950), DescFpr16(FprC)>>
    /\ NChunks = 3
    /\ g_chunks[1].ndesc_used = 1
    /\ g_chunks[1].screened.kb = <<Pkt(PKT_PUBLIC_KEY, KeyC)>>
    /\ g_chunks[1].screened.rc = GPG_ERR_GENERAL
    /\ NamedBy(<<Pkt(PKT_PUBLIC_KEY, KeyC)>>, g_desc[3])
    /\ g_chunks[3].screened.rc = 0

-----------------------------------------------------------------------------
(* C40: keyserver_refresh leaves the global keyserver import options      *)
(* unchanged on return: on every return path, the one after a failed      *)
(* keyidlist and the one after a failed retrieval included, the options   *)
(* are what they were when the function was entered.                      *)
C40_OptionsRestoredOnReturn ==
    rf_pc = "done" => rf_import_options = rf_options

====
